---- MODULE Spec2Model ----
(***************************************************************************)
(* navi: the path tree (build, compression), the Miller-column layout, the *)
(* navigation and the scrolling of ui.TreeModel, and the part of the host  *)
(* program (model.Update) that rebuilds and drives the tree.               *)
(*                                                                         *)
(* A Go string is modelled as the sequence of its bytes, each byte a       *)
(* one-character string: "a/x" is <<"a", "/", "x">>.  A *Node is modelled  *)
(* as an index into the arena `nodes` (a sequence of node records, in      *)
(* allocation order); the nil pointer is 0.                                *)
(***************************************************************************)
EXTENDS Integers, Sequences, FiniteSets, TLC

(***************************************************************************)
(* Strings                                                                 *)
(***************************************************************************)
Sep == "/"

NIL == 0

STR_DOT == <<".">>

STR_ROOT == <<"R", "O", "O", "T">>

STR_ROOT_PREFIX == <<"R", "O", "O", "T", "/">>

\* The bytes of the UTF-8 encoding of the ellipsis character, U+2026.
STR_ELLIPSIS == <<"e2", "80", "a6">>

Max(a, b) == IF a >= b THEN a ELSE b

Min(a, b) == IF a <= b THEN a ELSE b

\* strings.HasPrefix
HasPrefix(s, p) == Len(s) >= Len(p) /\ SubSeq(s, 1, Len(p)) = p

\* strings.TrimPrefix
TrimPrefix(s, p) == IF HasPrefix(s, p) THEN SubSeq(s, Len(p) + 1, Len(s)) ELSE s

\* strings.Contains(s, string(filepath.Separator))
ContainsSep(s) == \E i \in 1..Len(s) : s[i] = Sep

\* strings.Split(s, string(filepath.Separator)): the pieces between the
\* separators, empty pieces included; never an empty list.
RECURSIVE SplitFrom(_, _, _)
SplitFrom(s, i, cur) ==
    IF i > Len(s) THEN <<cur>>
    ELSE IF s[i] = Sep THEN <<cur>> \o SplitFrom(s, i + 1, <<>>)
    ELSE SplitFrom(s, i + 1, Append(cur, s[i]))

Split(s) == SplitFrom(s, 1, <<>>)

\* strings.Join(parts, "/")
RECURSIVE JoinSep(_)
JoinSep(parts) ==
    IF Len(parts) = 0 THEN <<>>
    ELSE IF Len(parts) = 1 THEN parts[1]
    ELSE parts[1] \o <<Sep>> \o JoinSep(Tail(parts))

\* The element loop of filepath.Clean: empty and "." elements are dropped,
\* ".." removes the element before it when there is one to remove, is kept
\* in a relative path and dropped in a rooted one.
RECURSIVE CleanParts(_, _, _)
CleanParts(parts, out, rooted) ==
    IF Len(parts) = 0 THEN out
    ELSE LET e == Head(parts)
             rest == Tail(parts)
         IN  IF e = <<>> \/ e = <<".">> THEN CleanParts(rest, out, rooted)
             ELSE IF e = <<".", ".">>
             THEN IF Len(out) > 0 /\ out[Len(out)] # <<".", ".">>
                  THEN CleanParts(rest, SubSeq(out, 1, Len(out) - 1), rooted)
                  ELSE IF rooted THEN CleanParts(rest, out, rooted)
                  ELSE CleanParts(rest, Append(out, e), rooted)
             ELSE CleanParts(rest, Append(out, e), rooted)

\* filepath.Clean (Unix)
Clean(s) ==
    IF Len(s) = 0 THEN STR_DOT
    ELSE LET rooted == s[1] = Sep
             body == JoinSep(CleanParts(Split(s), <<>>, rooted))
         IN  IF rooted THEN <<Sep>> \o body
             ELSE IF Len(body) = 0 THEN STR_DOT
             ELSE body

\* filepath.Join(a, b): empty elements before the first non-empty one are
\* ignored, the rest is joined with the separator and cleaned; "" when
\* both are empty.
PathJoin(a, b) ==
    IF Len(a) > 0 THEN Clean(a \o <<Sep>> \o b)
    ELSE IF Len(b) > 0 THEN Clean(b)
    ELSE <<>>

\* filepath.Join("...", a, b) with the ellipsis as first element
PathJoin3(a, b, c) == Clean(a \o <<Sep>> \o b \o <<Sep>> \o c)

(***************************************************************************)
(* Nodes                                                                   *)
(***************************************************************************)
\* A new node that is flagged historical whatever the caller passes.
NewNodeFlagged(name, path, parent, isDir, isHistory) ==
    [Name |-> name, Path |-> path, Children |-> <<>>, Parent |-> parent,
     IsDir |-> isDir, IsHistory |-> TRUE, X |-> 0, Y |-> 0]

\* The value of &Node{Name, Path, Parent, IsDir, IsHistory}: no children,
\* coordinates zero.
NewNode(name, path, parent, isDir, isHistory) ==
    [Name |-> name, Path |-> path, Children |-> <<>>, Parent |-> parent,
     IsDir |-> isDir, IsHistory |-> isHistory, X |-> 0, Y |-> 0]

RootId == 1

\* The nodes reachable from n through Children (n included).
RECURSIVE Subtree(_, _)
Subtree(T, n) ==
    {n} \cup UNION {Subtree(T, T[n].Children[i]) : i \in 1..Len(T[n].Children)}

TreeNodes(T) == Subtree(T, RootId)

\* The index of the first child of `current` named `part`, or NIL.
FindChild(T, current, part) ==
    LET cs == T[current].Children
        hits == {i \in 1..Len(cs) : T[cs[i]].Name = part}
    IN  IF hits = {} THEN NIL
        ELSE cs[CHOOSE i \in hits : \A j \in hits : i <= j]

\* A loop body that puts a new child before its siblings.
RECURSIVE InsertPartsPrepending(_, _, _, _, _, _)
InsertPartsPrepending(T, current, parts, i, path, historyPaths) ==
    IF i > Len(parts)
    THEN IF path \in historyPaths
         THEN [T EXCEPT ![current].IsHistory = TRUE]
         ELSE T
    ELSE LET part == parts[i]
             found == FindChild(T, current, part)
             childPath == PathJoin(T[current].Path, part)
             fresh == Len(T) + 1
             T1 == IF found = NIL
                   THEN [Append(T, NewNode(part, childPath, current,
                                           i < Len(parts),
                                           path \in historyPaths
                                             \/ childPath \in historyPaths))
                           EXCEPT ![current].Children = <<fresh>> \o @]
                   ELSE IF path \in historyPaths \/ T[found].Path \in historyPaths
                   THEN [T EXCEPT ![found].IsHistory = TRUE]
                   ELSE T
             child == IF found = NIL THEN fresh ELSE found
             T2 == [T1 EXCEPT ![child].IsDir = TRUE]
         IN  InsertPartsPrepending(T2, child, parts, i + 1, path, historyPaths)

\* The body of buildTree's loop over the parts of one path, from part i on,
\* and the marking of the final node.
RECURSIVE InsertParts(_, _, _, _, _, _)
InsertParts(T, current, parts, i, path, historyPaths) ==
    IF i > Len(parts)
    THEN IF path \in historyPaths
         THEN [T EXCEPT ![current].IsHistory = TRUE]
         ELSE T
    ELSE LET part == parts[i]
             found == FindChild(T, current, part)
             childPath == PathJoin(T[current].Path, part)
             fresh == Len(T) + 1
             T1 == IF found = NIL
                   THEN [Append(T, NewNode(part, childPath, current,
                                           i < Len(parts),
                                           path \in historyPaths
                                             \/ childPath \in historyPaths))
                           EXCEPT ![current].Children = Append(@, fresh)]
                   ELSE IF path \in historyPaths \/ T[found].Path \in historyPaths
                   THEN [T EXCEPT ![found].IsHistory = TRUE]
                   ELSE T
             child == IF found = NIL THEN fresh ELSE found
             T2 == [T1 EXCEPT ![child].IsDir = TRUE]
         IN  InsertParts(T2, child, parts, i + 1, path, historyPaths)

RECURSIVE BuildFrom(_, _, _, _)
BuildFrom(T, paths, k, historyPaths) ==
    IF k > Len(paths) THEN T
    ELSE LET T1 == InsertParts(T, RootId, Split(paths[k]), 1, paths[k], historyPaths)
         IN  \* the comparison has TLC compute T1 before it turns to the next path
             IF T1 = T THEN BuildFrom(T, paths, k + 1, historyPaths)
             ELSE BuildFrom(T1, paths, k + 1, historyPaths)

\* buildTree: the arena holding the tree of `paths`, the root at RootId.
buildTree(paths, historyPaths) ==
    BuildFrom(<<NewNode(STR_ROOT, STR_DOT, NIL, TRUE, FALSE)>>, paths, 1, historyPaths)

RECURSIVE countLeaves(_, _)
countLeaves(T, n) ==
    IF Len(T[n].Children) = 0 THEN 1
    ELSE LET cs == T[n].Children
             sum[i \in 0..Len(cs)] ==
                 IF i = 0 THEN 0 ELSE sum[i - 1] + countLeaves(T, cs[i])
         IN  sum[Len(cs)]

\* The joined-label length above which compressTree looks at the leaf count.
NameLenThreshold == 18

\* The leaf count above which a long merge is skipped.
LeafThreshold == 4

\* A merge that leaves the Parent of the adopted children as it was.
ReparentNone(T, cs, i, node) == T

\* "Grandchildren" of the merge: the adopted children point back at `node`.
RECURSIVE Reparent(_, _, _, _)
Reparent(T, cs, i, node) ==
    IF i > Len(cs) THEN T
    ELSE Reparent([T EXCEPT ![cs[i]].Parent = node], cs, i + 1, node)

\* The merge of `node` with its only child.
MergeChild(T, node) ==
    LET child == T[node].Children[1]
        T1 == [T EXCEPT ![node].Name = PathJoin(T[node].Name, T[child].Name),
                        ![node].Path = T[child].Path,
                        ![node].IsDir = T[child].IsDir,
                        ![node].Children = T[child].Children]
    IN  Reparent(T1, T1[node].Children, 1, node)

\* The threshold test of compressTree: TRUE when the merge is skipped.
SkipMerge(T, node) ==
    LET child == T[node].Children[1]
        potentialNameLen == Len(T[node].Name) + 1 + Len(T[child].Name)
    IN  potentialNameLen > NameLenThreshold /\ countLeaves(T, child) > LeafThreshold

RECURSIVE compressTree(_, _)
RECURSIVE CompressChildren(_, _, _)
CompressChildren(T, cs, i) ==
    IF i > Len(cs) THEN T
    ELSE CompressChildren(compressTree(T, cs[i]), cs, i + 1)

\* A compressTree without the test that spares the root.
compressTreeMergingRoot(T, node) ==
    IF ~T[node].IsDir \/ Len(T[node].Children) = 0 THEN T
    ELSE LET T1 == CompressChildren(T, T[node].Children, 1)
         IN  IF Len(T1[node].Children) = 1
             THEN IF SkipMerge(T1, node) THEN T1
                  ELSE compressTree(MergeChild(T1, node), node)
             ELSE T1

\* compressTree: the children first, then the merge of a node that is not
\* named ROOT with its only child, repeated while it has an only child.
compressTree(T, node) ==
    IF ~T[node].IsDir \/ Len(T[node].Children) = 0 THEN T
    ELSE LET T1 == CompressChildren(T, T[node].Children, 1)
         IN  IF T1[node].Name = STR_ROOT THEN T1
             ELSE IF Len(T1[node].Children) = 1
             THEN IF SkipMerge(T1, node) THEN T1
                  ELSE compressTree(MergeChild(T1, node), node)
             ELSE T1

\* findNode: depth-first from the root with an explicit stack, the last
\* child of a node visited first; NIL when no node has the path.
RECURSIVE FindLoop(_, _, _)
FindLoop(T, stack, targetPath) ==
    IF Len(stack) = 0 THEN NIL
    ELSE LET n == stack[Len(stack)]
             rest == SubSeq(stack, 1, Len(stack) - 1)
         IN  IF T[n].Path = targetPath THEN n
             ELSE FindLoop(T, rest \o T[n].Children, targetPath)

findNode(T, root, targetPath) ==
    IF T[root].Path = targetPath THEN root
    ELSE FindLoop(T, <<root>>, targetPath)

(***************************************************************************)
(* TreeModel: selection, visibility, layout                                *)
(***************************************************************************)
\* A Go map[int]int read: the zero value for a missing key.
MapGet(m, k) == IF k \in DOMAIN m THEN m[k] ELSE 0

MapPut(m, k, v) == [i \in DOMAIN m \cup {k} |-> IF i = k THEN v ELSE m[i]]

EmptyMap == [i \in {} |-> 0]

\* A default selection that falls back on the root although the root has
\* children.
DefaultSelectionRootFallback(T, paths) ==
    LET bestMatch == IF Len(paths) > 0 THEN findNode(T, RootId, paths[1]) ELSE NIL
    IN  IF Len(paths) > 0 /\ bestMatch # NIL THEN bestMatch ELSE RootId

\* The selection NewTreeModel makes: the node of paths[0], else the first
\* child of the root, else the root.
DefaultSelection(T, paths) ==
    LET bestMatch == IF Len(paths) > 0 THEN findNode(T, RootId, paths[1]) ELSE NIL
    IN  IF Len(paths) > 0 /\ bestMatch # NIL THEN bestMatch
        ELSE IF Len(T[RootId].Children) > 0 THEN T[RootId].Children[1]
        ELSE RootId

\* NewTreeModel: the TreeModel value, its nodes in the arena T.
NewTreeModel(paths, w, h, hist) ==
    LET T == compressTree(buildTree(paths, hist), RootId)
    IN  [T |-> T, SelectedNode |-> DefaultSelection(T, paths),
         Width |-> w, Height |-> h, ScrollOffset |-> 0, ColWidths |-> EmptyMap]

\* TreeModel.SelectedPath
SelectedPathOf(T, sel) ==
    IF sel # NIL THEN TrimPrefix(T[sel].Path, STR_ROOT_PREFIX) ELSE <<>>

\* The index of node n in the sequence cs, 0 when it is not in it.
IndexOf(cs, n) ==
    IF \E i \in 1..Len(cs) : cs[i] = n
    THEN CHOOSE i \in 1..Len(cs) : cs[i] = n /\ \A j \in 1..(i - 1) : cs[j] # n
    ELSE 0

\* A moveSelection that wraps around at the ends of the sibling list.
moveSelectionWrapping(T, sel, delta) ==
    IF sel = NIL \/ T[sel].Parent = NIL THEN sel
    ELSE LET siblings == T[T[sel].Parent].Children
             i == IndexOf(siblings, sel)
         IN  IF i # 0 THEN siblings[((i - 1 + delta) % Len(siblings)) + 1] ELSE sel

\* TreeModel.moveSelection: the new selection.
moveSelection(T, sel, delta) ==
    IF sel = NIL \/ T[sel].Parent = NIL THEN sel
    ELSE LET siblings == T[T[sel].Parent].Children
             i == IndexOf(siblings, sel)
             next == i + delta
         IN  IF i # 0 /\ next >= 1 /\ next <= Len(siblings)
             THEN siblings[next]
             ELSE sel

\* An enterDirectory that selects the last child.
enterDirectoryLastChild(T, sel) ==
    IF sel # NIL /\ T[sel].IsDir /\ Len(T[sel].Children) > 0
    THEN T[sel].Children[Len(T[sel].Children)]
    ELSE sel

\* TreeModel.enterDirectory: the new selection.
enterDirectory(T, sel) ==
    IF sel # NIL /\ T[sel].IsDir /\ Len(T[sel].Children) > 0
    THEN T[sel].Children[1]
    ELSE sel

\* A leaveDirectory that goes up two levels.
leaveDirectoryTwoUp(T, sel) ==
    IF sel # NIL /\ T[sel].Parent # NIL /\ T[T[sel].Parent].Parent # NIL
    THEN T[T[sel].Parent].Parent
    ELSE sel

\* A leaveDirectory that goes up to the root as well.
leaveDirectoryToRoot(T, sel) ==
    IF sel # NIL /\ T[sel].Parent # NIL THEN T[sel].Parent ELSE sel

\* TreeModel.leaveDirectory: the new selection.
leaveDirectory(T, sel) ==
    IF sel # NIL /\ T[sel].Parent # NIL /\ T[T[sel].Parent].Parent # NIL
    THEN T[sel].Parent
    ELSE sel

\* n and the nodes above it, following the Parent pointers.
RECURSIVE Ancestors(_, _)
Ancestors(T, n) == IF n = NIL THEN {} ELSE {n} \cup Ancestors(T, T[n].Parent)

\* TreeModel.getExpandedMap: the set of the nodes mapped to true.
getExpandedMap(T, sel) == {RootId} \cup Ancestors(T, sel)

\* The walk up from the selection that getVisibleChildren makes to find the
\* child of `node` on the path to the selection; NIL when there is none.
RECURSIVE OnPathChild(_, _, _)
OnPathChild(T, curr, node) ==
    IF curr = NIL THEN NIL
    ELSE IF T[curr].Parent = node THEN curr
    ELSE OnPathChild(T, T[curr].Parent, node)

\* A getVisibleChildren without the isolation of the path to the selection.
getVisibleChildrenAll(T, sel, node, expanded) ==
    IF node \notin expanded THEN <<>>
    ELSE T[node].Children

\* A getVisibleChildren that shows all children of the selection only, not
\* of its parent.
getVisibleChildrenOfSelection(T, sel, node, expanded) ==
    IF node \notin expanded THEN <<>>
    ELSE IF sel # NIL /\ node = sel THEN T[node].Children
    ELSE IF sel # NIL /\ OnPathChild(T, sel, node) # NIL
    THEN <<OnPathChild(T, sel, node)>>
    ELSE T[node].Children

\* TreeModel.getVisibleChildren
getVisibleChildren(T, sel, node, expanded) ==
    IF node \notin expanded THEN <<>>
    ELSE IF sel # NIL /\ (node = sel \/ node = T[sel].Parent) THEN T[node].Children
    ELSE IF sel # NIL /\ OnPathChild(T, sel, node) # NIL
    THEN <<OnPathChild(T, sel, node)>>
    ELSE T[node].Children

MinColWidth == 20

MaxColWidth == 40

\* The cells layoutAssign adds to the length of a label: cursor, slash, padding.
Decoration == 4

\* The width layoutAssign computes for a node, before it takes the maximum
\* over the column.
NodeWidth(T, sel, node) ==
    LET name == T[node].Name
        parts == Split(name)
        w0 == IF node # sel /\ ContainsSep(name) /\ Len(parts) > 2
              THEN Len(STR_ELLIPSIS \o <<Sep>> \o parts[Len(parts) - 1]
                       \o <<Sep>> \o parts[Len(parts)]) + Decoration
              ELSE Len(name) + Decoration
    IN  Max(MinColWidth, Min(MaxColWidth, w0))

\* layoutAssign on the state st = [T, yCounters, ColWidths].
RECURSIVE layoutAssign(_, _, _, _, _)
RECURSIVE layoutAssignSameRow(_, _, _, _, _)
RECURSIVE LayoutChildren(_, _, _, _, _, _)
LayoutChildren(st, cs, i, depth, expanded, sel) ==
    IF i > Len(cs) THEN st
    ELSE LayoutChildren(layoutAssign(st, cs[i], depth, expanded, sel),
                        cs, i + 1, depth, expanded, sel)

\* A layoutAssign that does not advance the row counter of the column.
layoutAssignSameRow(st, node, depth, expanded, sel) ==
    LET y == MapGet(st.yCounters, depth)
        T1 == [st.T EXCEPT ![node].X = depth, ![node].Y = y]
        w == NodeWidth(st.T, sel, node)
        st1 == [T |-> T1,
                yCounters |-> MapPut(st.yCounters, depth, y),
                ColWidths |-> IF w > MapGet(st.ColWidths, depth)
                              THEN MapPut(st.ColWidths, depth, w)
                              ELSE st.ColWidths]
    IN  LayoutChildren(st1, getVisibleChildren(T1, sel, node, expanded), 1,
                       depth + 1, expanded, sel)

\* layoutAssign: the node takes the next row of its column, then its
\* visible children are laid out in the next column.
layoutAssign(st, node, depth, expanded, sel) ==
    LET y == MapGet(st.yCounters, depth)
        T1 == [st.T EXCEPT ![node].X = depth, ![node].Y = y]
        w == NodeWidth(st.T, sel, node)
        st1 == [T |-> T1,
                yCounters |-> MapPut(st.yCounters, depth, y + 1),
                ColWidths |-> IF w > MapGet(st.ColWidths, depth)
                              THEN MapPut(st.ColWidths, depth, w)
                              ELSE st.ColWidths]
    IN  LayoutChildren(st1, getVisibleChildren(T1, sel, node, expanded), 1,
                       depth + 1, expanded, sel)

\* TreeModel.layoutRoot: [T, yCounters, ColWidths] after the pass.
layoutRoot(T, sel, expanded) ==
    layoutAssign([T |-> T, yCounters |-> EmptyMap, ColWidths |-> EmptyMap],
                 RootId, 0, expanded, sel)

\* A scroll logic that is off by one when the selection is below the window.
AdjustScrollOffByOne(y, scrollOffset, h) ==
    LET s1 == IF y < scrollOffset THEN y ELSE scrollOffset
    IN  IF y >= s1 + h THEN y - h ELSE s1

\* A scroll logic that always puts the selection's row at the top.
AdjustScrollToRow(y, scrollOffset, h) == y

\* The scroll logic of TreeModel.Update: the new ScrollOffset.
AdjustScroll(y, scrollOffset, h) ==
    LET s1 == IF y < scrollOffset THEN y ELSE scrollOffset
    IN  IF y >= s1 + h THEN y - h + 1 ELSE s1

\* The selection after the key switch of TreeModel.Update.
KeySelection(T, sel, key) ==
    CASE key \in {"up", "k"} -> moveSelection(T, sel, -1)
      [] key \in {"down", "j"} -> moveSelection(T, sel, 1)
      [] key \in {"right", "l"} -> enterDirectory(T, sel)
      [] key \in {"left", "h"} -> leaveDirectory(T, sel)
      [] OTHER -> sel

\* An Update that marks the node it selects as historical.
TreeUpdateMarking(tm, key) ==
    LET sel == KeySelection(tm.T, tm.SelectedNode, key)
    IN  [tm EXCEPT !.SelectedNode = sel,
                   !.T = IF sel = NIL THEN @ ELSE [@ EXCEPT ![sel].IsHistory = TRUE]]

\* TreeModel.Update on a key message: the TreeModel it returns.
TreeUpdate(tm, key) ==
    LET sel == KeySelection(tm.T, tm.SelectedNode, key)
    IN  IF sel = NIL THEN [tm EXCEPT !.SelectedNode = sel]
        ELSE LET lay == layoutRoot(tm.T, sel, getExpandedMap(tm.T, sel))
             IN  [T |-> lay.T, SelectedNode |-> sel,
                  Width |-> tm.Width, Height |-> tm.Height,
                  ScrollOffset |-> AdjustScroll(lay.T[sel].Y, tm.ScrollOffset, tm.Height),
                  ColWidths |-> lay.ColWidths]

(***************************************************************************)
(* TreeModel.View                                                          *)
(***************************************************************************)
\* The display root: down from the root while the node has exactly one
\* child and that child is a directory.
RECURSIVE DisplayRoot(_, _)
DisplayRoot(T, n) ==
    IF Len(T[n].Children) = 1 /\ T[T[n].Children[1]].IsDir
    THEN DisplayRoot(T, T[n].Children[1])
    ELSE n

\* The shift View applies to every X so that the children of the display
\* root land in column 0.
ShiftX(T, displayRoot) ==
    IF displayRoot # RootId THEN -(T[displayRoot].X + 1) ELSE -1

\* TreeModel.applyXShift: every node under the root, visible or not.
applyXShift(T, shift) ==
    LET all == TreeNodes(T)
    IN  [n \in DOMAIN T |-> IF n \in all THEN [T[n] EXCEPT !.X = @ + shift] ELSE T[n]]

\* The sum of ColWidths[i] for i in from..to (0 when from > to).
RECURSIVE SumWidths(_, _, _)
SumWidths(cw, from, to) ==
    IF from > to THEN 0 ELSE MapGet(cw, from) + SumWidths(cw, from + 1, to)

\* The loop of View that advances scrollX while the columns from scrollX
\* through targetCol are wider than the viewport.
RECURSIVE ScrollLoop(_, _, _, _, _)
ScrollLoop(cw, currentW, scrollX, targetCol, w) ==
    IF currentW > w /\ scrollX < targetCol
    THEN ScrollLoop(cw, currentW - MapGet(cw, scrollX), scrollX + 1, targetCol, w)
    ELSE scrollX

\* The horizontal scroll start View computes.
ScrollX(cw, targetCol, w) ==
    IF targetCol > 0
    THEN ScrollLoop(cw, SumWidths(cw, 0, targetCol), 0, targetCol, w)
    ELSE 0

\* The nodes renderNode visits: the root and, below every visited node, its
\* visible children.
RECURSIVE Rendered(_, _, _, _)
Rendered(T, sel, expanded, n) ==
    LET cs == getVisibleChildren(T, sel, n, expanded)
    IN  {n} \cup UNION {Rendered(T, sel, expanded, cs[i]) : i \in 1..Len(cs)}

\* screenX of renderNode: the widths of the columns from scrollX up to the
\* node's column, or -100 for a node left of scrollX.
ScreenX(T, cw, scrollX, n) ==
    IF T[n].X - scrollX >= 0 THEN SumWidths(cw, scrollX, T[n].X - 1) ELSE -100

\* The test of renderNode that guards the drawing of the node's label.
IsDrawn(T, cw, scrollX, w, n) ==
    T[n].X - scrollX >= 0 /\ ScreenX(T, cw, scrollX, n) < w

\* The label of a node before truncation: the contracted form of a merged
\* label for a node that is not the selection, and the directory slash.
LabelOf(T, sel, n) ==
    LET parts == Split(T[n].Name)
        name == IF n # sel /\ ContainsSep(T[n].Name) /\ Len(parts) > 2
                THEN PathJoin3(STR_ELLIPSIS, parts[Len(parts) - 1], parts[Len(parts)])
                ELSE T[n].Name
    IN  IF T[n].IsDir THEN name \o <<Sep>> ELSE name

\* name[:colWidth-2] of a label longer than colWidth-2 fails for a negative
\* bound (slice bounds out of range).
SlicePanics(T, sel, cw, n) ==
    LET colWidth == MapGet(cw, T[n].X)
    IN  Len(LabelOf(T, sel, n)) > colWidth - 2 /\ colWidth - 2 < 0

\* make([][]string, Height) fails for a negative Height, and make([]string,
\* Width), run once for every row, for a negative Width.
CanvasPanics(w, h) == h < 0 \/ (h > 0 /\ w < 0)

NoFrame ==
    [status |-> "none", shiftX |-> 0, targetCol |-> 0, scrollX |-> 0,
     rows |-> 0, cols |-> 0, drawn |-> {}]

\* TreeModel.View on the TreeModel tm: the arena after the layout pass and
\* the X shift (the nodes are shared with the caller's TreeModel), and what
\* the frame shows.  ColWidths of the pass stay local to View: they are
\* returned for the drawing of the cells only.
TreeView(tm) ==
    LET sel == tm.SelectedNode
        displayRoot == DisplayRoot(tm.T, RootId)
        expanded == getExpandedMap(tm.T, sel)
        lay == layoutRoot(tm.T, sel, expanded)
        shiftX == ShiftX(lay.T, displayRoot)
        T2 == applyXShift(lay.T, shiftX)
        cw == lay.ColWidths
        targetCol == T2[sel].X
        scrollX == ScrollX(cw, targetCol, tm.Width)
        visited == Rendered(T2, sel, expanded, RootId)
        drawnNodes == {n \in visited : IsDrawn(T2, cw, scrollX, tm.Width, n)}
        panics == CanvasPanics(tm.Width, tm.Height)
                    \/ \E n \in drawnNodes : SlicePanics(T2, sel, cw, n)
    IN  [T |-> T2,
         ColWidths |-> cw,
         frame |-> [status |-> IF panics THEN "panic" ELSE "ok",
                    shiftX |-> shiftX, targetCol |-> targetCol, scrollX |-> scrollX,
                    rows |-> IF panics THEN 0 ELSE tm.Height,
                    cols |-> IF panics THEN 0 ELSE tm.Width,
                    drawn |-> IF panics THEN {}
                              ELSE {n \in drawnNodes :
                                      /\ T2[n].Y >= tm.ScrollOffset
                                      /\ T2[n].Y < tm.ScrollOffset + tm.Height}]]

(***************************************************************************)
(* TreeModel.View: the cells of the canvas that are drawn                  *)
(***************************************************************************)
\* []rune(s): the three bytes of the ellipsis are one rune, any other byte
\* is a rune of its own.
RECURSIVE Runes(_)
Runes(s) ==
    IF Len(s) = 0 THEN <<>>
    ELSE IF HasPrefix(s, STR_ELLIPSIS)
    THEN <<"ellipsis">> \o Runes(SubSeq(s, Len(STR_ELLIPSIS) + 1, Len(s)))
    ELSE <<s[1]>> \o Runes(Tail(s))

\* The text renderNode draws for node n: the cursor before the selection,
\* the label, cut to colWidth-2 bytes and marked ".." when it is longer.
NodeText(T, sel, cw, n) ==
    LET colWidth == MapGet(cw, T[n].X)
        name == LabelOf(T, sel, n)
        cut == IF Len(name) > colWidth - 2
               THEN SubSeq(name, 1, colWidth - 2) \o <<".", ".">>
               ELSE name
    IN  (IF n = sel THEN <<">", " ">> ELSE <<>>) \o cut

\* A drawString test that lets every cell through.
InGridAlways(x, w) == TRUE

\* The test of drawString that guards the write of one cell.
InGrid(x, w) == x >= 0 /\ x < w

\* drawString(x, y, s): the cells <<column, line>> of the canvas it writes,
\* s having len runes.
DrawString(x, y, len, tm) ==
    IF y < tm.ScrollOffset \/ y >= tm.ScrollOffset + tm.Height THEN {}
    ELSE IF x >= tm.Width THEN {}
    ELSE {<<x + i, y - tm.ScrollOffset>> : i \in {j \in 0..(len - 1) : InGrid(x + j, tm.Width)}}

\* The cells renderNode writes for the label of node n.
LabelCells(T, cw, scrollX, n, tm) ==
    IF IsDrawn(T, cw, scrollX, tm.Width, n)
    THEN DrawString(ScreenX(T, cw, scrollX, n), T[n].Y,
                    Len(Runes(NodeText(T, tm.SelectedNode, cw, n))), tm)
    ELSE {}

\* The cells renderNode writes for the connectors from node n to its visible
\* children cs: one in every row from the first child's to the last child's,
\* and a dash behind it in the row of a child.
ConnectorCells(T, cw, scrollX, n, cs, tm) ==
    LET vx == SumWidths(cw, scrollX, T[n].X - 1) + MapGet(cw, T[n].X) - 2
    IN  IF Len(cs) > 0 /\ T[n].X >= scrollX /\ vx < tm.Width
        THEN UNION {DrawString(vx, y, 1, tm)
                      \cup (IF \E i \in 1..Len(cs) : T[cs[i]].Y = y
                            THEN DrawString(vx + 1, y, 1, tm) ELSE {})
                    : y \in T[cs[1]].Y .. T[cs[Len(cs)]].Y}
        ELSE {}

\* The cells TreeModel.View writes on the TreeModel tm, after its layout
\* pass and X shift have produced the arena T and the column widths cw.
WrittenCells(T, cw, scrollX, expanded, tm) ==
    UNION {LabelCells(T, cw, scrollX, n, tm)
             \cup ConnectorCells(T, cw, scrollX, n,
                                 getVisibleChildren(T, tm.SelectedNode, n, expanded), tm)
           : n \in Rendered(T, tm.SelectedNode, expanded, RootId)}

\* canvas[screenY][x] of a cell that the canvas does not have fails (index
\* out of range).
IndexPanics(cells, w, h) ==
    \E c \in cells : c[1] < 0 \/ c[1] >= w \/ c[2] < 0 \/ c[2] >= h

\* The frame of TreeModel.View with the cells written: v is what TreeView
\* gives for tm, the frame without the cells.
CanvasFrame(v, expanded, tm) ==
    LET cells == IF v.frame.status = "ok"
                 THEN WrittenCells(v.T, v.ColWidths, v.frame.scrollX, expanded, tm)
                 ELSE {}
        panics == v.frame.status # "ok" \/ IndexPanics(cells, tm.Width, tm.Height)
    IN  [T |-> v.T,
         frame |-> [status |-> IF panics THEN "panic" ELSE "ok",
                    shiftX |-> v.frame.shiftX, targetCol |-> v.frame.targetCol,
                    scrollX |-> v.frame.scrollX,
                    rows |-> IF panics THEN 0 ELSE tm.Height,
                    cols |-> IF panics THEN 0 ELSE tm.Width,
                    drawn |-> IF panics THEN {} ELSE v.frame.drawn,
                    cells |-> IF panics THEN {} ELSE cells]]

\* TreeModel.View with the canvas: the arena after the call and the frame,
\* or the failure of a write.
ViewCanvas(tm) == CanvasFrame(TreeView(tm), getExpandedMap(tm.T, tm.SelectedNode), tm)

(***************************************************************************)
(* The store: the settings, history and tags tables                        *)
(***************************************************************************)
\* The characters of the stored strings in the order of their byte values
\* (SQLite compares TEXT with memcmp).
ByteOrder == <<".", "/", "O", "R", "T", "a", "b", "p", "q", "w", "x", "y">>

Ord(c) == CHOOSE i \in 1..Len(ByteOrder) : ByteOrder[i] = c

\* s < t for two strings, byte by byte, a proper prefix first.
RECURSIVE StrLess(_, _)
StrLess(s, t) ==
    IF Len(t) = 0 THEN FALSE
    ELSE IF Len(s) = 0 THEN TRUE
    ELSE IF s[1] = t[1] THEN StrLess(Tail(s), Tail(t))
    ELSE Ord(s[1]) < Ord(t[1])

\* The database after createTables: no row in any table.  A setting
\* without a row reads as "" (GetSetting); clock is the time of day in
\* seconds that CURRENT_TIMESTAMP reads.
EmptyDB ==
    [settings |-> [default_action |-> ""], history |-> <<>>, tags |-> <<>>, clock |-> 0]

\* store.SetSetting(db, "default_action", value)
SetSetting(d, value) == [d EXCEPT !.settings.default_action = value]

\* store.GetSetting(db, "default_action")
GetSetting(d) == d.settings.default_action

\* An UpdateFrecency whose conflict clause keeps the frequency.
UpdateFrecencyKeeping(d, path) ==
    LET hits == {i \in 1..Len(d.history) : d.history[i].path = path}
    IN  IF hits = {}
        THEN [d EXCEPT !.history =
                 Append(@, [path |-> path, frequency |-> 1, last_visited |-> d.clock])]
        ELSE LET i == CHOOSE j \in hits : TRUE
             IN  [d EXCEPT !.history[i].frequency = @,
                           !.history[i].last_visited = d.clock]

\* store.UpdateFrecency: INSERT ... ON CONFLICT(path) DO UPDATE
UpdateFrecency(d, path) ==
    LET hits == {i \in 1..Len(d.history) : d.history[i].path = path}
    IN  IF hits = {}
        THEN [d EXCEPT !.history =
                 Append(@, [path |-> path, frequency |-> 1, last_visited |-> d.clock])]
        ELSE LET i == CHOOSE j \in hits : TRUE
             IN  [d EXCEPT !.history[i].frequency = @ + 1,
                           !.history[i].last_visited = d.clock]

\* The orders of the rows 1..n of a table.
Orders(n) == {f \in [1..n -> 1..n] : \A i, j \in 1..n : i # j => f[i] # f[j]}

\* store.GetHistory: the lists SELECT ... ORDER BY last_visited DESC may
\* return; rows of equal last_visited come in an order SQL leaves open.
GetHistory(d) ==
    LET h == d.history
    IN  {[i \in 1..Len(h) |-> h[f[i]]] :
           f \in {g \in Orders(Len(h)) :
                    \A i \in 1..(Len(h) - 1) :
                        h[g[i]].last_visited >= h[g[i + 1]].last_visited}}

\* An AddPathToTag that inserts without the conflict clause and without
\* the UNIQUE constraint.
AddPathToTagAlways(d, tagName, path) ==
    [d EXCEPT !.tags = Append(@, [name |-> tagName, path |-> path])]

\* store.AddPathToTag: INSERT OR IGNORE under UNIQUE(name, path)
AddPathToTag(d, tagName, path) ==
    IF \E i \in 1..Len(d.tags) : d.tags[i] = [name |-> tagName, path |-> path]
    THEN d
    ELSE [d EXCEPT !.tags = Append(@, [name |-> tagName, path |-> path])]

\* store.RemovePathFromTag: DELETE FROM tags WHERE name = ? AND path = ?
RemovePathFromTag(d, tagName, path) ==
    LET Other(r) == ~(r.name = tagName /\ r.path = path)
    IN  [d EXCEPT !.tags = SelectSeq(@, Other)]

\* ORDER BY path: s with p inserted before the first string that is not
\* below it.
RECURSIVE InsertSorted(_, _)
InsertSorted(s, p) ==
    IF Len(s) = 0 THEN <<p>>
    ELSE IF StrLess(s[1], p) THEN <<s[1]>> \o InsertSorted(Tail(s), p)
    ELSE <<p>> \o s

RECURSIVE OrderByPath(_)
OrderByPath(rows) ==
    IF Len(rows) = 0 THEN <<>>
    ELSE InsertSorted(OrderByPath(Tail(rows)), rows[1].path)

\* store.GetPathsForTag: SELECT path FROM tags WHERE name = ? ORDER BY path
GetPathsForTag(d, tagName) ==
    LET Named(r) == r.name = tagName
    IN  OrderByPath(SelectSeq(d.tags, Named))

(***************************************************************************)
(* search.FuzzyHierarchical                                                *)
(***************************************************************************)
\* strings.ReplaceAll(query, " ", "")
RemoveSpaces(query) ==
    LET NotSpace(c) == c # " "
    IN  SelectSeq(query, NotSpace)

\* The lower-case letter of an upper-case ASCII letter, any other byte
\* itself.
ToLower(c) ==
    CASE c = "A" -> "a"
      [] c = "B" -> "b"
      [] c = "X" -> "x"
      [] OTHER -> c

\* equalFold of github.com/sahilm/fuzzy: two runes match when they are equal
\* up to case.
EqualFold(c1, c2) == ToLower(c1) = ToLower(c2)

\* The candidate loop of fuzzy.FindFromNoSort: the runes of the pattern are
\* looked for in the candidate from left to right, each after the one
\* before; the candidate is a match when the pattern is used up.
RECURSIVE FuzzyMatch(_, _)
FuzzyMatch(pattern, candidate) ==
    IF Len(pattern) = 0 THEN TRUE
    ELSE IF Len(candidate) = 0 THEN FALSE
    ELSE IF EqualFold(candidate[1], pattern[1])
    THEN FuzzyMatch(Tail(pattern), Tail(candidate))
    ELSE FuzzyMatch(pattern, Tail(candidate))

\* fuzzy.Find(pattern, data): no match for an empty pattern
\* (FindFromNoSort returns nil); otherwise the matching strings of data,
\* sorted by a score of the library that is not modelled: the lists Find
\* may return are the matching entries of data in every order.
FuzzyFind(pattern, data) ==
    IF Len(pattern) = 0 THEN {<<>>}
    ELSE LET hits == {i \in 1..Len(data) : FuzzyMatch(pattern, data[i])}
             n == Cardinality(hits)
         IN  {[k \in 1..n |-> data[f[k]]] :
                f \in {g \in [1..n -> hits] : \A i, j \in 1..n : i # j => g[i] # g[j]}}

\* search.FuzzyHierarchical: the lists of result paths it may return.
FuzzyHierarchical(paths, query) ==
    IF query = <<>> THEN {paths}
    ELSE FuzzyFind(RemoveSpaces(query), paths)

(***************************************************************************)
(* The host program: model.Update, model.View                              *)
(***************************************************************************)
\* The rows the host keeps for the text input.
InputHeight == 3

\* The dimensions of the empty tree of initialModel.
InitWidth == 80

InitHeight == 20

\* The dimensions the searchDoneMsg handler falls back on.
DefaultWidth == 80

DefaultHeight == 20

\* filepath.IsAbs (Unix)
IsAbs(p) == HasPrefix(p, <<Sep>>)

\* resolveSelectedPath
resolveSelectedPath(p, baseDir) ==
    IF p = <<>> THEN <<>>
    ELSE IF IsAbs(p) THEN p
    ELSE LET cleaned == Clean(p)
             baseClean == Clean(baseDir)
             baseNoSlash == TrimPrefix(baseClean, <<Sep>>)
         IN  IF baseClean # <<>> /\ HasPrefix(cleaned, baseNoSlash)
             THEN <<Sep>> \o cleaned
             ELSE IF baseClean = <<>> THEN cleaned
             ELSE PathJoin(baseClean, cleaned)

\* filepath.Abs with the working directory cwd
Abs(p, cwd) == IF IsAbs(p) THEN Clean(p) ELSE PathJoin(cwd, p)

\* The tree dimensions the searchDoneMsg handler passes to NewTreeModel.
SearchDims(mw, mh, tw, th) ==
    IF mw = 0 \/ mh - InputHeight <= 0
    THEN [w |-> IF tw > 0 THEN tw ELSE DefaultWidth,
          h |-> IF th > 0 THEN th ELSE DefaultHeight]
    ELSE [w |-> mw, h |-> mh - InputHeight]

\* The actions of the "tab" and "shift+tab" handlers, in the order of their
\* list.
actions == <<"terminal", "explorer", "editor", "copy">>

ActionSet == {actions[i] : i \in 1..Len(actions)}

\* idx after the loop of the handlers: the place of the action in the list
\* (from 0), 0 for a string the list does not hold.
IndexOfAction(a) ==
    LET hits == {i \in 1..Len(actions) : actions[i] = a}
    IN  IF hits = {} THEN 0 ELSE (CHOOSE i \in hits : TRUE) - 1

\* idx = (idx + 1) % len(actions)
NextIndex(idx) == (idx + 1) % Len(actions)

\* A step back that goes forward.
PrevIndexForward(idx) == (idx + 1) % Len(actions)

\* idx = (idx + len(actions) - 1) % len(actions)
PrevIndex(idx) == (idx + Len(actions) - 1) % Len(actions)

\* defaultConfig; the command templates of the configuration are left out.
defaultConfig == [DefaultAction |-> "explorer"]

\* loadConfig
loadConfig(d) ==
    IF GetSetting(d) # "" THEN [defaultConfig EXCEPT !.DefaultAction = GetSetting(d)]
    ELSE defaultConfig

\* saveConfig
saveConfig(d, cfg) == SetSetting(d, cfg.DefaultAction)

\* The configuration main starts the program with: loadConfig, and the
\* -action flag when it is given (main accepts the four actions only).
StartConfig(d, startAction) ==
    IF startAction # "" THEN [loadConfig(d) EXCEPT !.DefaultAction = startAction]
    ELSE loadConfig(d)

\* initialModel: the fields of the model besides the tree, the window size,
\* historyPaths and selectedPath.
initialModel(cfg) ==
    [config |-> cfg, mode |-> "browse", configField |-> 0, configEditing |-> FALSE,
     input |-> <<>>, activeTag |-> <<>>, isInitialLoad |-> TRUE,
     currentDirLoaded |-> FALSE, historyFiles |-> <<>>, currentDirFiles |-> <<>>,
     allFiles |-> <<>>,
     tagPath |-> <<>>, tagList |-> <<>>, tagSelected |-> 0, tagEditing |-> FALSE,
     tagInput |-> <<>>]

\* combineFiles: the history files, then the current-directory files that
\* are not among them, every path once.
RECURSIVE Dedup2(_, _)
Dedup2(ps, seen) ==
    IF Len(ps) = 0 THEN <<>>
    ELSE IF ps[1] \in seen THEN Dedup2(Tail(ps), seen)
    ELSE <<ps[1]>> \o Dedup2(Tail(ps), seen \cup {ps[1]})

\* A combineFiles that appends the two lists as they are.
combineFilesAppending(historyFiles, currentDirFiles) == historyFiles \o currentDirFiles

combineFiles(historyFiles, currentDirFiles) == Dedup2(historyFiles \o currentDirFiles, {})

\* The list a text-input search runs on.
searchFiles(md) ==
    IF md.currentDirLoaded /\ Len(md.currentDirFiles) > 0
    THEN combineFiles(md.historyFiles, md.currentDirFiles)
    ELSE md.allFiles

\* strings.SplitN(s, " ", 2): s up to its first space, and the rest.
FirstSpace(s) == CHOOSE i \in 1..Len(s) : s[i] = " " /\ \A j \in 1..(i - 1) : s[j] # " "

HasSpace(s) == \E i \in 1..Len(s) : s[i] = " "

\* The query the filesLoadedMsg and WindowSizeMsg handlers search with: the
\* input without the prefix "@tag" and one space after it.
parsedQuery(md) ==
    IF md.activeTag # <<>>
    THEN TrimPrefix(TrimPrefix(md.input, <<"@">> \o md.activeTag), <<" ">>)
    ELSE md.input

\* store.GetTagsForPath: the names of the tags the path carries, each once
\* (UNIQUE(name, path)), in any of the orders a SELECT may return them.
GetTagsForPath(d, path) ==
    LET OnPath(r) == r.path = path
        rows == SelectSeq(d.tags, OnPath)
    IN  {[i \in 1..Len(rows) |-> rows[f[i]].name] : f \in Orders(Len(rows))}

\* strings.TrimSpace on strings whose only white space is the space.
RECURSIVE TrimSpace(_)
TrimSpace(s) ==
    IF Len(s) = 0 THEN s
    ELSE IF s[1] = " " THEN TrimSpace(Tail(s))
    ELSE IF s[Len(s)] = " " THEN TrimSpace(SubSeq(s, 1, Len(s) - 1))
    ELSE s

\* model.tagsView: the lines of the tag list, each with the tag and whether
\* it carries the cursor "> "; the one line "(no tags)" for an empty list.
tagsView(md) ==
    IF Len(md.tagList) = 0 THEN <<[cursor |-> FALSE, text |-> "(no tags)"]>>
    ELSE [i \in 1..Len(md.tagList) |->
            [cursor |-> (i - 1 = md.tagSelected), text |-> md.tagList[i]]]

(***************************************************************************)
(* Bounds and inputs                                                       *)
(***************************************************************************)
\* The longest list of search results.
MaxPaths == 3

\* View is not run once some node's X is below -MaxDrift: the X of a node
\* that no layout pass visits decreases with every frame.
MaxDrift == 2

\* The candidate paths: files at the top level, files in a directory, a
\* directory that is itself a result, an absolute path (as the history
\* store holds them).
PathUniverse ==
    { <<"a">>, <<"b">>,
      <<"a", "/", "x">>, <<"a", "/", "y">>,
      <<"/", "a">> }

PathLists == UNION {[1..n -> PathUniverse] : n \in 0..MaxPaths}

\* The paths the host may have marked as history.
HistoryChoices == {{}}

\* The terminal sizes of the WindowSizeMsg (width, height).
WindowSizes == {<<30, 4>>, <<80, 5>>, <<80, 3>>}

\* The working directory of the process.
CurrentDir == <<"/", "w">>

NavKeys == {"up", "down", "left", "right"}

(***************************************************************************)
(* State                                                                   *)
(***************************************************************************)
VARIABLES
    nodes,          \* the arena of the *Node of m.tree (Root is RootId)
    SelectedNode,   \* m.tree.SelectedNode
    Width,          \* m.tree.Width
    Height,         \* m.tree.Height
    ScrollOffset,   \* m.tree.ScrollOffset
    ColWidths,      \* m.tree.ColWidths
    width,          \* m.width
    height,         \* m.height
    historyPaths,   \* m.historyPaths
    selectedPath,   \* m.selectedPath
    results,        \* the paths of the searchDoneMsg the searches deliver
    frame,          \* what the last call of View showed
    lastMsg,        \* the message handled last
    pc,             \* "render": a frame is due; "idle": waiting for a message;
                    \* "quit": the program has ended; "panic": View failed
    db,             \* m.db: the rows of the store
    model,          \* the other fields of the model m (see initialModel)
    inflight,       \* the commands that run: the messages they will deliver
    log             \* the calls made so far, as the properties need them

treeVars == <<nodes, SelectedNode, Width, Height, ScrollOffset, ColWidths>>

hostVars == <<width, height, historyPaths, selectedPath, results>>

appVars == <<db, model, inflight, log>>

vars == <<nodes, SelectedNode, Width, Height, ScrollOffset, ColWidths,
          width, height, historyPaths, selectedPath, results, frame, lastMsg, pc,
          db, model, inflight, log>>

\* m.tree as a TreeModel value
Tree ==
    [T |-> nodes, SelectedNode |-> SelectedNode, Width |-> Width, Height |-> Height,
     ScrollOffset |-> ScrollOffset, ColWidths |-> ColWidths]

\* m.tree = tm
SetTree(tm) ==
    /\ nodes' = tm.T
    /\ SelectedNode' = tm.SelectedNode
    /\ Width' = tm.Width
    /\ Height' = tm.Height
    /\ ScrollOffset' = tm.ScrollOffset
    /\ ColWidths' = tm.ColWidths

\* The tree variables of an initial state
InitTree(tm) ==
    /\ nodes = tm.T
    /\ SelectedNode = tm.SelectedNode
    /\ Width = tm.Width
    /\ Height = tm.Height
    /\ ScrollOffset = tm.ScrollOffset
    /\ ColWidths = tm.ColWidths

\* m.tree.SelectedPath()
SelectedPath == SelectedPathOf(nodes, SelectedNode)

\* The tree and the host's fields of initialModel, before any message.
HostAtStart ==
    /\ InitTree(NewTreeModel(<<>>, InitWidth, InitHeight, {}))
    /\ width = 0
    /\ height = 0
    /\ historyPaths = {}
    /\ selectedPath = <<>>
    /\ results = <<>>
    /\ frame = NoFrame
    /\ lastMsg = "none"
    /\ pc = "idle"

\* The store and the model's other fields as initialModel finds and leaves
\* them on an empty database, with no command running.
AppAtStart ==
    /\ db = EmptyDB
    /\ model = initialModel(defaultConfig)
    /\ inflight = {}
    /\ log = <<>>

\* initialModel, after the initial load has set the history paths and
\* started the first search.
Init ==
    /\ AppAtStart
    /\ InitTree(NewTreeModel(<<>>, InitWidth, InitHeight, {}))
    /\ width = 0
    /\ height = 0
    /\ historyPaths \in HistoryChoices
    /\ selectedPath = <<>>
    /\ results \in PathLists
    /\ frame = NoFrame
    /\ lastMsg = "none"
    /\ pc = "render"

\* model.Update, case searchDoneMsg
SearchDone ==
    /\ UNCHANGED appVars
    /\ pc = "idle"
    /\ LET d == SearchDims(width, height, Width, Height)
       IN  SetTree(NewTreeModel(results, d.w, d.h, historyPaths))
    /\ lastMsg' = "search"
    /\ pc' = "render"
    /\ UNCHANGED <<hostVars, frame>>

\* model.Update, case tea.KeyMsg "up", "down", "left", "right" in browse mode
Key(k) ==
    /\ UNCHANGED appVars
    /\ pc = "idle"
    /\ SetTree(TreeUpdate(Tree, k))
    /\ lastMsg' = k
    /\ pc' = "render"
    /\ UNCHANGED <<hostVars, frame>>

\* model.Update, case tea.KeyMsg "enter" in browse mode
Enter ==
    /\ pc = "idle"
    /\ lastMsg' = "enter"
    /\ IF SelectedPath = <<>>
       THEN /\ pc' = "render"
            /\ UNCHANGED <<historyPaths, selectedPath, db>>
       ELSE /\ db' = UpdateFrecency(db, Abs(resolveSelectedPath(SelectedPath, CurrentDir),
                                            CurrentDir))
            /\ historyPaths' = historyPaths \cup {SelectedPath}
            /\ selectedPath' = Abs(resolveSelectedPath(SelectedPath, CurrentDir), CurrentDir)
            /\ pc' = "quit"
    /\ UNCHANGED <<treeVars, width, height, results, frame, model, inflight, log>>

\* model.Update, case tea.WindowSizeMsg
WindowSize(w, h) ==
    /\ UNCHANGED appVars
    /\ pc = "idle"
    /\ width' = w
    /\ height' = h
    /\ IF h - InputHeight > 0
       THEN /\ Width' = w
            /\ Height' = h - InputHeight
       ELSE UNCHANGED <<Width, Height>>
    /\ lastMsg' = "resize"
    /\ pc' = "render"
    /\ UNCHANGED <<nodes, SelectedNode, ScrollOffset, ColWidths,
                   historyPaths, selectedPath, results, frame>>

\* model.View: the frame of the tree, drawn after every Update.
View ==
    /\ UNCHANGED appVars
    /\ pc = "render"
    /\ \A n \in TreeNodes(nodes) : nodes[n].X >= -MaxDrift
    /\ LET v == TreeView(Tree)
       IN  /\ nodes' = v.T
           /\ frame' = v.frame
           /\ pc' = IF v.frame.status = "panic" THEN "panic" ELSE "idle"
    /\ UNCHANGED <<SelectedNode, Width, Height, ScrollOffset, ColWidths,
                   hostVars, lastMsg>>

Next ==
    \/ SearchDone
    \/ \E k \in NavKeys : Key(k)
    \/ Enter
    \/ \E s \in WindowSizes : WindowSize(s[1], s[2])
    \/ View

Spec == Init /\ [][Next]_vars

(***************************************************************************)
(* The TreeModel on its own: NewTreeModel with any dimensions, then        *)
(* Update and View as a caller of the package may run them.                *)
(***************************************************************************)
\* The viewport sizes (width, height) a caller passes to NewTreeModel.
ApiSizes == {<<30, 2>>, <<0, 2>>, <<30, 0>>, <<0, 0>>, <<-1, 2>>, <<30, -1>>}

InitTreeModel ==
    /\ AppAtStart
    /\ \E paths \in PathLists, s \in ApiSizes :
          /\ InitTree(NewTreeModel(paths, s[1], s[2], {}))
          /\ results = paths
    /\ width = 0
    /\ height = 0
    /\ historyPaths = {}
    /\ selectedPath = <<>>
    /\ frame = NoFrame
    /\ lastMsg = "none"
    /\ pc \in {"idle", "render"}

NextTreeModel ==
    \/ \E k \in NavKeys : Key(k)
    \/ View

SpecTreeModel == InitTreeModel /\ [][NextTreeModel]_vars

(***************************************************************************)
(* NewTreeModel step by step, as cmd/test_tree calls it: buildTree,        *)
(* compressTree, the default selection; then View and the navigation keys. *)
(***************************************************************************)
\* The viewport cmd/test_tree passes to NewTreeModel.
TestWidth == 80

TestHeight == 20

\* The string of n bytes c.
Rep(c, n) == [i \in 1..n |-> c]

\* paths2 of cmd/test_tree: a/b/c/d/e/f.go, a/b/c/g/h.go, a/x/y.go
DeepPaths ==
    << <<"a", "/", "b", "/", "c", "/", "d", "/", "e", "/", "f", ".", "g", "o">>,
       <<"a", "/", "b", "/", "c", "/", "g", "/", "h", ".", "g", "o">>,
       <<"a", "/", "x", "/", "y", ".", "g", "o">> >>

\* src/main/java/com/example
ExampleDir ==
    <<"s", "r", "c", "/", "m", "a", "i", "n", "/", "j", "a", "v", "a", "/",
      "c", "o", "m", "/", "e", "x", "a", "m", "p", "l", "e">>

AppJava == <<"A", "p", "p", ".", "j", "a", "v", "a">>

UtilsJava == <<"U", "t", "i", "l", "s", ".", "j", "a", "v", "a">>

\* paths3 of cmd/test_tree: the two files of src/main/java/com/example
CompressionPaths ==
    << ExampleDir \o <<Sep>> \o AppJava, ExampleDir \o <<Sep>> \o UtilsJava >>

\* k files "1", "2", ... in a directory of n2 bytes in a directory of n1 bytes.
LongChain(n1, n2, k) ==
    [i \in 1..k |-> Rep("d", n1) \o <<Sep>> \o Rep("e", n2) \o <<Sep, ToString(i)>>]

\* Chains around the thresholds of compressTree: a joined label of 19 bytes
\* over 5 leaves, of 19 bytes over 4 leaves, of 18 bytes over 5 leaves.
ThresholdLists == {LongChain(10, 8, 5), LongChain(10, 8, 4), LongChain(10, 7, 5)}

\* The candidate paths of the lists built: files at the top level and at two
\* depths, an absolute path, and a directory with the name the root carries.
BuildUniverse ==
    { <<"b">>,
      <<"a", "/", "x">>,
      <<"a", "/", "b", "/", "x">>, <<"a", "/", "b", "/", "y">>,
      <<"/", "a">>,
      <<"R", "O", "O", "T", "/", "x">> }

\* A file and a file with a name of 20 bytes, both at the top level.
WideList == << <<"b">>, Rep("f", 20) >>

\* Two absolute paths, as the history store holds them.
AbsoluteList == << <<"/", "a">>, <<"/", "b">> >>

BuildLists ==
    UNION {[1..n -> BuildUniverse] : n \in 0..MaxPaths}
        \cup {DeepPaths, CompressionPaths, WideList, AbsoluteList} \cup ThresholdLists

\* The history sets: none, or a file and a directory visited before.
BuildHistories == {{}, {<<"a", "/", "x">>, <<"a", "/", "b">>}}

\* Before the call of NewTreeModel(paths, 80, 20, historyPaths).
InitBuild ==
    /\ AppAtStart
    /\ nodes = <<>>
    /\ SelectedNode = NIL
    /\ Width = TestWidth
    /\ Height = TestHeight
    /\ ScrollOffset = 0
    /\ ColWidths = EmptyMap
    /\ width = 0
    /\ height = 0
    /\ historyPaths \in BuildHistories
    /\ selectedPath = <<>>
    /\ results \in BuildLists
    /\ frame = NoFrame
    /\ lastMsg = "none"
    /\ pc = "build"

\* NewTreeModel: root := buildTree(paths, historyPaths)
Build ==
    /\ UNCHANGED appVars
    /\ pc = "build"
    /\ nodes' = buildTree(results, historyPaths)
    /\ pc' = "compress"
    /\ UNCHANGED <<SelectedNode, Width, Height, ScrollOffset, ColWidths,
                   hostVars, frame, lastMsg>>

\* NewTreeModel: compressTree(root)
Compress ==
    /\ UNCHANGED appVars
    /\ pc = "compress"
    /\ nodes' = compressTree(nodes, RootId)
    /\ pc' = "select"
    /\ UNCHANGED <<SelectedNode, Width, Height, ScrollOffset, ColWidths,
                   hostVars, frame, lastMsg>>

\* NewTreeModel: the default selection; the caller then draws the tree.
Select ==
    /\ UNCHANGED appVars
    /\ pc = "select"
    /\ SelectedNode' = DefaultSelection(nodes, results)
    /\ pc' = "render"
    /\ UNCHANGED <<nodes, Width, Height, ScrollOffset, ColWidths,
                   hostVars, frame, lastMsg>>

NextBuild ==
    \/ Build
    \/ Compress
    \/ Select
    \/ View
    \/ \E k \in NavKeys : Key(k)

SpecBuild == InitBuild /\ [][NextBuild]_vars

(***************************************************************************)
(* The TreeModel with the cells of every frame: NewTreeModel on a viewport *)
(* of at least one row and one cell, then Update and View.                 *)
(***************************************************************************)
\* The viewport sizes (width, height): one row that ends two cells into the
\* second column, a single cell, and room for the whole tree.
CanvasSizes == {<<22, 1>>, <<1, 1>>, <<45, 3>>}

InitCanvas ==
    /\ AppAtStart
    /\ \E paths \in PathLists, s \in CanvasSizes :
          /\ InitTree(NewTreeModel(paths, s[1], s[2], {}))
          /\ results = paths
    /\ width = 0
    /\ height = 0
    /\ historyPaths = {}
    /\ selectedPath = <<>>
    /\ frame = NoFrame
    /\ lastMsg = "none"
    /\ pc \in {"idle", "render"}

\* TreeModel.View, the cells it draws included.
ViewCells ==
    /\ UNCHANGED appVars
    /\ pc = "render"
    /\ \A n \in TreeNodes(nodes) : nodes[n].X >= -MaxDrift
    /\ LET v == ViewCanvas(Tree)
       IN  /\ nodes' = v.T
           /\ frame' = v.frame
           /\ pc' = IF v.frame.status = "panic" THEN "panic" ELSE "idle"
    /\ UNCHANGED <<SelectedNode, Width, Height, ScrollOffset, ColWidths,
                   hostVars, lastMsg>>

NextCanvas ==
    \/ \E k \in NavKeys : Key(k)
    \/ ViewCells

SpecCanvas == InitCanvas /\ [][NextCanvas]_vars

(***************************************************************************)
(* The default action: main, then the keys of the browse mode and of the   *)
(* configuration mode that change it                                       *)
(***************************************************************************)
\* The number of consecutive "tab" and "shift+tab" keys the log keeps.
MaxKeys == 4

\* The keys of the configuration mode (not editing a field).
ConfigKeys == {"esc", "up", "down", "left", "right", " ", "enter"}

\* The log of the default action: base is the action before the first of
\* the keys kept, after[i] the action after keys[i].
ActionLog(a) == [base |-> a, keys |-> <<>>, after |-> <<>>]

\* The log with one more key, the oldest key dropped beyond MaxKeys.
PushKey(l, k, a) ==
    IF Len(l.keys) < MaxKeys
    THEN [base |-> l.base, keys |-> Append(l.keys, k), after |-> Append(l.after, a)]
    ELSE [base |-> l.after[1], keys |-> Append(Tail(l.keys), k),
          after |-> Append(Tail(l.after), a)]

\* main and initialModel: the stored setting is absent or one that
\* saveConfig wrote, the -action flag is absent or one that main accepts.
InitAction ==
    /\ HostAtStart
    /\ inflight = {}
    /\ \E stored \in {""} \cup ActionSet, startAction \in {""} \cup ActionSet :
          /\ db = SetSetting(EmptyDB, stored)
          /\ model = initialModel(StartConfig(db, startAction))
          /\ log = ActionLog(model.config.DefaultAction)

\* model.Update, case tea.KeyMsg "tab" in browse mode
Tab ==
    /\ model.mode = "browse"
    /\ LET a == actions[NextIndex(IndexOfAction(model.config.DefaultAction)) + 1]
       IN  /\ model' = [model EXCEPT !.config.DefaultAction = a]
           /\ db' = saveConfig(db, model'.config)
           /\ log' = PushKey(log, "tab", a)
    /\ lastMsg' = "tab"
    /\ UNCHANGED <<treeVars, hostVars, frame, pc, inflight>>

\* model.Update, case tea.KeyMsg "shift+tab" in browse mode
ShiftTab ==
    /\ model.mode = "browse"
    /\ LET a == actions[PrevIndex(IndexOfAction(model.config.DefaultAction)) + 1]
       IN  /\ model' = [model EXCEPT !.config.DefaultAction = a]
           /\ db' = saveConfig(db, model'.config)
           /\ log' = PushKey(log, "shift+tab", a)
    /\ lastMsg' = "shift+tab"
    /\ UNCHANGED <<treeVars, hostVars, frame, pc, inflight>>

\* model.Update, case tea.KeyMsg "ctrl+o" in browse mode
CtrlO ==
    /\ model.mode = "browse"
    /\ model' = [model EXCEPT !.mode = "config"]
    /\ log' = ActionLog(model.config.DefaultAction)
    /\ lastMsg' = "ctrl+o"
    /\ UNCHANGED <<treeVars, hostVars, frame, pc, inflight, db>>

\* model.Update, case tea.KeyMsg in configuration mode, no field being
\* edited
ConfigKey(k) ==
    /\ model.mode = "config"
    /\ ~model.configEditing
    /\ LET idx == IndexOfAction(model.config.DefaultAction)
           a == actions[(IF k = "left" THEN PrevIndex(idx) ELSE NextIndex(idx)) + 1]
       IN  CASE k = "esc" ->
                  /\ model' = [model EXCEPT !.mode = "browse", !.configEditing = FALSE]
                  /\ db' = db
             [] k = "up" ->
                  /\ model' = [model EXCEPT !.configField =
                                  IF @ > 0 THEN @ - 1 ELSE @]
                  /\ db' = db
             [] k = "down" ->
                  /\ model' = [model EXCEPT !.configField =
                                  IF @ < 3 THEN @ + 1 ELSE @]
                  /\ db' = db
             [] k \in {"left", "right", " "} ->
                  IF model.configField = 0
                  THEN /\ model' = [model EXCEPT !.config.DefaultAction = a]
                       /\ db' = saveConfig(db, model'.config)
                  ELSE UNCHANGED <<model, db>>
             [] k = "enter" ->
                  /\ model' = [model EXCEPT !.configEditing = model.configField # 0]
                  /\ db' = db
    /\ log' = ActionLog(model'.config.DefaultAction)
    /\ lastMsg' = k
    /\ UNCHANGED <<treeVars, hostVars, frame, pc, inflight>>

\* model.Update, case tea.KeyMsg "esc" or "enter" in configuration mode
\* while a command template is edited (the templates are left out).
ConfigEditKey(k) ==
    /\ model.mode = "config"
    /\ model.configEditing
    /\ model' = [model EXCEPT !.configEditing = FALSE]
    /\ db' = IF k = "enter" THEN saveConfig(db, model.config) ELSE db
    /\ log' = ActionLog(model.config.DefaultAction)
    /\ lastMsg' = k
    /\ UNCHANGED <<treeVars, hostVars, frame, pc, inflight>>

NextAction ==
    \/ Tab
    \/ ShiftTab
    \/ CtrlO
    \/ \E k \in ConfigKeys : ConfigKey(k)
    \/ \E k \in {"esc", "enter"} : ConfigEditKey(k)

SpecAction == InitAction /\ [][NextAction]_vars

(***************************************************************************)
(* The store under calls of UpdateFrecency, AddPathToTag and               *)
(* RemovePathFromTag                                                       *)
(***************************************************************************)
\* The most calls of UpdateFrecency for one path.
MaxVisits == 2

\* The paths visited.
VisitPaths == {<<"/", "a">>, <<"/", "b">>, <<"/", "a", "/", "x">>}

\* The (tag, path) pairs added and removed: three paths of one tag, given in
\* an order that is not the order of their bytes, and a path with two tags.
TagPairs ==
    { <<<<"p">>, <<"/", "b">>>>, <<<<"p">>, <<"/", "a", "/", "x">>>>,
      <<<<"p">>, <<"/", "a", ".", "b">>>>, <<<<"q">>, <<"/", "b">>>> }

TagNames == {pr[1] : pr \in TagPairs}

\* The log of the store: the number of UpdateFrecency calls for each path,
\* the pairs added and not removed since, and the last call of the two tag
\* functions with whether its pair was among them.
StoreLog ==
    [visits |-> [p \in VisitPaths |-> 0], pairs |-> {},
     last |-> [op |-> "none", pair |-> <<>>, held |-> FALSE]]

InitStore ==
    /\ HostAtStart
    /\ db = EmptyDB
    /\ model = initialModel(defaultConfig)
    /\ inflight = {}
    /\ log = StoreLog

\* A call of store.UpdateFrecency(db, p); the clock reads the same second
\* or the next when the call returns.
UpdateFrecencyCall(p) ==
    /\ log.visits[p] < MaxVisits
    /\ \E dt \in {0, 1} : db' = [UpdateFrecency(db, p) EXCEPT !.clock = @ + dt]
    /\ log' = [log EXCEPT !.visits[p] = @ + 1]
    /\ lastMsg' = "UpdateFrecency"
    /\ UNCHANGED <<treeVars, hostVars, frame, pc, model, inflight>>

\* A call of store.AddPathToTag(db, pr[1], pr[2])
AddPathToTagCall(pr) ==
    /\ db' = AddPathToTag(db, pr[1], pr[2])
    /\ log' = [log EXCEPT !.pairs = @ \cup {pr},
                          !.last = [op |-> "add", pair |-> pr, held |-> pr \in log.pairs]]
    /\ lastMsg' = "AddPathToTag"
    /\ UNCHANGED <<treeVars, hostVars, frame, pc, model, inflight>>

\* A call of store.RemovePathFromTag(db, pr[1], pr[2])
RemovePathFromTagCall(pr) ==
    /\ db' = RemovePathFromTag(db, pr[1], pr[2])
    /\ log' = [log EXCEPT !.pairs = @ \ {pr},
                          !.last = [op |-> "remove", pair |-> pr, held |-> pr \in log.pairs]]
    /\ lastMsg' = "RemovePathFromTag"
    /\ UNCHANGED <<treeVars, hostVars, frame, pc, model, inflight>>

\* The history table under calls of UpdateFrecency.
NextHistory == \E p \in VisitPaths : UpdateFrecencyCall(p)

SpecHistory == InitStore /\ [][NextHistory]_vars

\* The tags table under calls of AddPathToTag and RemovePathFromTag.
NextTags ==
    \/ \E pr \in TagPairs : AddPathToTagCall(pr)
    \/ \E pr \in TagPairs : RemovePathFromTagCall(pr)

SpecTags == InitStore /\ [][NextTags]_vars

(***************************************************************************)
(* FuzzyHierarchical on a list of paths and a query                        *)
(***************************************************************************)
\* The longest query.
MaxQuery == 2

\* The bytes of the queries: letters of the paths, the space between two
\* terms, and an upper-case letter.
QueryBytes == {"a", "x", " ", "A"}

Queries == UNION {[1..n -> QueryBytes] : n \in 0..MaxQuery}

\* The lists searched: a file in a directory, the same names the other way
\* round, and a file at the top level.
SearchPaths == {<<"a", "/", "x">>, <<"x", "/", "a">>, <<"b">>}

SearchLists == UNION {[1..n -> SearchPaths] : n \in 0..2}

InitSearch ==
    /\ HostAtStart
    /\ db = EmptyDB
    /\ model = initialModel(defaultConfig)
    /\ inflight = {}
    /\ \E paths \in SearchLists, query \in Queries : log = [paths |-> paths, query |-> query]

\* A call of search.FuzzyHierarchical(log.paths, log.query); results takes
\* the paths of the list it returns.
Search ==
    /\ lastMsg = "none"
    /\ \E r \in FuzzyHierarchical(log.paths, log.query) : results' = r
    /\ lastMsg' = "FuzzyHierarchical"
    /\ UNCHANGED <<treeVars, width, height, historyPaths, selectedPath, frame, pc, appVars>>

NextSearch == Search

SpecSearch == InitSearch /\ [][NextSearch]_vars

(***************************************************************************)
(* The loads and the searches: Init, the keys of the text input, and the   *)
(* filesLoadedMsg and searchDoneMsg the commands deliver, in any order     *)
(***************************************************************************)
\* The longest text of the input.
MaxInput == 3

\* The most commands that run at a time.
MaxInflight == 2

\* The runes typed: a letter of the paths, and the bytes of "@p ".
InputRunes == {"a", "@", "p", " "}

\* The store the program starts on: one path visited, one path tagged p.
StoreAtStart ==
    AddPathToTag(UpdateFrecency(EmptyDB, <<"/", "a">>), <<"p">>, <<"/", "b">>)

\* What loadInitialFiles returns on that store: the tagged path, then the
\* path of the history.
InitialFiles == <<<<"/", "b">>, <<"/", "a">>>>

\* What loadFiles returns: the paths below the working directory.
WalkFiles == <<<<"a", "/", "x">>, <<"p">>>>

\* The message of a load: kind names the command that runs.
FilesMsg(kind, files) == [type |-> "files", kind |-> kind, files |-> files]

\* The log of the loads and searches: the paths of the search issued last,
\* and the loads whose lists were stored as historyFiles and as
\* currentDirFiles and were marked as history whole.
LoadLog ==
    [searched |-> FALSE, lastSearch |-> <<>>,
     historyFrom |-> "none", currentDirFrom |-> "none", markedFrom |-> "none"]

\* inflight and log after performSearch(files, query) has been started.
StartSearch(q, l, files, query, r) ==
    [inflight |-> Append(q, [type |-> "search", paths |-> r]),
     log |-> [l EXCEPT !.searched = TRUE, !.lastSearch = r]]

\* inflight without its i-th message.
Without(q, i) == SubSeq(q, 1, i - 1) \o SubSeq(q, i + 1, Len(q))

\* initialModel and model.Init: the initial load runs.
InitLoad ==
    /\ HostAtStart
    /\ db = StoreAtStart
    /\ model = initialModel(loadConfig(db))
    /\ inflight = <<FilesMsg("initial", InitialFiles)>>
    /\ log = LoadLog

\* model.Update, case filesLoadedMsg: the i-th command delivers its list.
FilesLoaded(i) ==
    /\ i \in 1..Len(inflight)
    /\ inflight[i].type = "files"
    /\ LET msg == inflight[i].files
           kind == inflight[i].kind
           historySet == {h.path : h \in {db.history[j] : j \in 1..Len(db.history)}}
           md == IF model.isInitialLoad
                 THEN [model EXCEPT !.historyFiles = msg,
                                    !.isInitialLoad = FALSE,
                                    !.allFiles = IF model.currentDirLoaded
                                                 THEN combineFiles(msg, model.currentDirFiles)
                                                 ELSE msg]
                 ELSE IF model.activeTag # <<>>
                 THEN [model EXCEPT !.allFiles = msg]
                 ELSE [model EXCEPT !.currentDirFiles = msg,
                                    !.currentDirLoaded = TRUE,
                                    !.allFiles = combineFiles(model.historyFiles, msg)]
           branch == IF model.isInitialLoad THEN "initial"
                     ELSE IF model.activeTag # <<>> THEN "tag" ELSE "current"
       IN  /\ model' = md
           /\ historyPaths' =
                 IF branch = "current"
                 THEN historyPaths \cup {msg[j] : j \in {k \in 1..Len(msg) : msg[k] \in historySet}}
                 ELSE {msg[j] : j \in 1..Len(msg)}
           /\ \E r \in FuzzyHierarchical(md.allFiles, parsedQuery(md)) :
                 LET s == StartSearch(Without(inflight, i), log, md.allFiles, parsedQuery(md), r)
                 IN  /\ inflight' = s.inflight
                     /\ log' = [s.log EXCEPT
                                  !.historyFrom = IF branch = "initial" THEN kind ELSE @,
                                  !.currentDirFrom = IF branch = "current" THEN kind ELSE @,
                                  !.markedFrom = IF branch # "current" THEN kind ELSE @]
    /\ lastMsg' = "files"
    /\ UNCHANGED <<treeVars, width, height, selectedPath, results, frame, pc, db>>

\* model.Update, case searchDoneMsg: the i-th command delivers its results.
SearchDoneMsg(i) ==
    /\ i \in 1..Len(inflight)
    /\ inflight[i].type = "search"
    /\ LET d == SearchDims(width, height, Width, Height)
       IN  SetTree(NewTreeModel(inflight[i].paths, d.w, d.h, historyPaths))
    /\ results' = inflight[i].paths
    /\ inflight' = Without(inflight, i)
    /\ lastMsg' = "search"
    /\ UNCHANGED <<width, height, historyPaths, selectedPath, frame, pc, db, model, log>>

\* model.Update, case tea.KeyMsg in browse mode, default branch: the text
\* input has taken the key and its value is newValue.
InputChanged(newValue) ==
    LET tagged == HasPrefix(newValue, <<"@">>) /\ HasSpace(newValue)
        potentialTag == TrimPrefix(SubSeq(newValue, 1, FirstSpace(newValue) - 1), <<"@">>)
        md == [model EXCEPT !.input = newValue]
    IN  IF tagged /\ potentialTag # model.activeTag
        THEN /\ model' = [md EXCEPT !.activeTag = potentialTag]
             /\ inflight' = Append(inflight,
                                   FilesMsg("tag", GetPathsForTag(db, potentialTag)))
             /\ log' = log
        ELSE IF ~HasPrefix(newValue, <<"@">>) /\ model.activeTag # <<>>
        THEN /\ model' = [md EXCEPT !.activeTag = <<>>]
             /\ inflight' = Append(inflight, FilesMsg("walk", WalkFiles))
             /\ log' = log
        ELSE IF ~HasPrefix(newValue, <<"@">>) /\ ~model.currentDirLoaded /\ newValue # <<>>
        THEN /\ model' = [md EXCEPT !.currentDirLoaded = TRUE]
             /\ inflight' = Append(inflight, FilesMsg("walk", WalkFiles))
             /\ log' = log
        ELSE LET query == IF tagged
                          THEN SubSeq(newValue, FirstSpace(newValue) + 1, Len(newValue))
                          ELSE newValue
             IN  \E r \in FuzzyHierarchical(searchFiles(md), query) :
                    LET s == StartSearch(inflight, log, searchFiles(md), query, r)
                    IN  /\ model' = md
                        /\ inflight' = s.inflight
                        /\ log' = s.log

\* A rune typed into the text input.
TypeRune(c) ==
    /\ Len(model.input) < MaxInput
    /\ Len(inflight) < MaxInflight
    /\ InputChanged(Append(model.input, c))
    /\ lastMsg' = "rune"
    /\ UNCHANGED <<treeVars, hostVars, frame, pc, db>>

\* Backspace in the text input.
Backspace ==
    /\ Len(model.input) > 0
    /\ Len(inflight) < MaxInflight
    /\ InputChanged(SubSeq(model.input, 1, Len(model.input) - 1))
    /\ lastMsg' = "backspace"
    /\ UNCHANGED <<treeVars, hostVars, frame, pc, db>>

NextLoad ==
    \/ \E i \in 1..MaxInflight : FilesLoaded(i)
    \/ \E i \in 1..MaxInflight : SearchDoneMsg(i)
    \/ \E c \in InputRunes : TypeRune(c)
    \/ Backspace

SpecLoad == InitLoad /\ [][NextLoad]_vars

(***************************************************************************)
(* The tags mode: ctrl+t on the selection, then the keys of the tag list   *)
(* and of the input of a new tag                                           *)
(***************************************************************************)
\* The longest text typed into the input of a new tag.
MaxTagInput == 2

TagRunes == {"t", " "}

\* The tags the selected directory may carry at the start.
StoredTags == {<<>>, << <<"t">> >>, << <<"t">>, <<"t", "t">> >>}

\* The directory ctrl+t tags: the selection of the empty tree is ".", which
\* os.Stat reports as a directory, resolved against the working directory.
TagDir == Abs(resolveSelectedPath(SelectedPathOf(nodes, SelectedNode), CurrentDir), CurrentDir)

InitTagsMode ==
    /\ HostAtStart
    /\ inflight = {}
    /\ log = <<>>
    /\ model = initialModel(defaultConfig)
    /\ \E names \in StoredTags :
          db = [EmptyDB EXCEPT !.tags = [i \in 1..Len(names) |->
                                           [name |-> names[i], path |-> TagDir]]]

\* model.Update, case tea.KeyMsg "ctrl+t" in browse mode
CtrlT ==
    /\ model.mode = "browse"
    /\ \E list \in GetTagsForPath(db, TagDir) :
          model' = [model EXCEPT !.tagPath = TagDir, !.tagList = list,
                                 !.tagSelected = 0, !.tagEditing = FALSE,
                                 !.tagInput = <<>>, !.mode = "tags"]
    /\ lastMsg' = "ctrl+t"
    /\ UNCHANGED <<treeVars, hostVars, frame, pc, inflight, db, log>>

\* model.Update, case tea.KeyMsg in tags mode, no tag being typed
TagKey(k) ==
    /\ model.mode = "tags"
    /\ ~model.tagEditing
    /\ CASE k = "esc" ->
              /\ model' = [model EXCEPT !.mode = "browse", !.tagEditing = FALSE,
                                        !.tagInput = <<>>]
              /\ db' = db
         [] k = "up" ->
              /\ model' = [model EXCEPT !.tagSelected = IF @ > 0 THEN @ - 1 ELSE @]
              /\ db' = db
         [] k = "down" ->
              /\ model' = [model EXCEPT !.tagSelected =
                              IF @ < Len(model.tagList) - 1 THEN @ + 1 ELSE @]
              /\ db' = db
         [] k = "a" ->
              /\ model' = [model EXCEPT !.tagEditing = TRUE, !.tagInput = <<>>]
              /\ db' = db
         [] k = "d" ->
              IF /\ Len(model.tagList) > 0
                 /\ model.tagSelected >= 0
                 /\ model.tagSelected < Len(model.tagList)
              THEN /\ db' = RemovePathFromTag(db, model.tagList[model.tagSelected + 1],
                                              model.tagPath)
                   /\ \E list \in GetTagsForPath(db', model.tagPath) :
                         model' = [model EXCEPT
                                     !.tagList = list,
                                     !.tagSelected = IF @ >= Len(list)
                                                     THEN Len(list) - 1 ELSE @]
              ELSE UNCHANGED <<model, db>>
    /\ lastMsg' = k
    /\ UNCHANGED <<treeVars, hostVars, frame, pc, inflight, log>>

\* model.Update, case tea.KeyMsg "esc" in tags mode while a tag is typed
TagEditEsc ==
    /\ model.mode = "tags"
    /\ model.tagEditing
    /\ model' = [model EXCEPT !.tagEditing = FALSE, !.tagInput = <<>>]
    /\ lastMsg' = "esc"
    /\ UNCHANGED <<treeVars, hostVars, frame, pc, inflight, db, log>>

\* model.Update, case tea.KeyMsg "enter" in tags mode while a tag is typed
TagEditEnter ==
    /\ model.mode = "tags"
    /\ model.tagEditing
    /\ LET tag == TrimSpace(model.tagInput)
       IN  IF tag # <<>>
           THEN /\ db' = AddPathToTag(db, tag, model.tagPath)
                /\ \E list \in GetTagsForPath(db', model.tagPath) :
                      model' = [model EXCEPT !.tagList = list, !.tagEditing = FALSE,
                                             !.tagInput = <<>>]
           ELSE /\ db' = db
                /\ model' = [model EXCEPT !.tagEditing = FALSE, !.tagInput = <<>>]
    /\ lastMsg' = "enter"
    /\ UNCHANGED <<treeVars, hostVars, frame, pc, inflight, log>>

\* model.Update, any other tea.KeyMsg in tags mode while a tag is typed:
\* the text input takes the rune.
TagEditRune(c) ==
    /\ model.mode = "tags"
    /\ model.tagEditing
    /\ Len(model.tagInput) < MaxTagInput
    /\ model' = [model EXCEPT !.tagInput = Append(@, c)]
    /\ lastMsg' = c
    /\ UNCHANGED <<treeVars, hostVars, frame, pc, inflight, db, log>>

NextTagsMode ==
    \/ CtrlT
    \/ \E k \in {"esc", "up", "down", "a", "d"} : TagKey(k)
    \/ TagEditEsc
    \/ TagEditEnter
    \/ \E c \in TagRunes : TagEditRune(c)

SpecTagsMode == InitTagsMode /\ [][NextTagsMode]_vars

(***************************************************************************)
(* combineFiles on two lists of paths                                      *)
(***************************************************************************)
\* The longest list of history files and of current-directory files.
MaxFiles == 2

CombinePaths == {<<"a">>, <<"b">>, <<"/", "w", "/", "a">>}

CombineLists == UNION {[1..n -> CombinePaths] : n \in 0..MaxFiles}

\* The model holds the two lists a load has delivered; nothing is combined.
InitCombine ==
    /\ HostAtStart
    /\ db = EmptyDB
    /\ inflight = {}
    /\ log = <<>>
    /\ \E h \in CombineLists, c \in CombineLists :
          model = [initialModel(defaultConfig) EXCEPT !.historyFiles = h,
                                                      !.currentDirFiles = c]

\* m.allFiles = combineFiles(m.historyFiles, m.currentDirFiles)
Combine ==
    /\ lastMsg = "none"
    /\ model' = [model EXCEPT !.allFiles =
                    combineFiles(model.historyFiles, model.currentDirFiles)]
    /\ lastMsg' = "combine"
    /\ UNCHANGED <<treeVars, hostVars, frame, pc, inflight, db, log>>

NextCombine == Combine

SpecCombine == InitCombine /\ [][NextCombine]_vars

(***************************************************************************)
(* Properties                                                              *)
(***************************************************************************)
\* The step is the handling of a message (not a frame, not a stutter).
Handled(msgs) == pc = "idle" /\ pc' # "idle" /\ lastMsg' \in msgs

SelY == nodes[SelectedNode].Y

Siblings == nodes[nodes[SelectedNode].Parent].Children

NonEmptyTree == Len(nodes[RootId].Children) > 0

\* C1: after Update has handled a navigation key, with Height >= 1, the row
\* of the selection lies in [ScrollOffset, ScrollOffset + Height).
C1_RowInWindow ==
    (lastMsg \in NavKeys /\ Height >= 1)
        => (ScrollOffset <= SelY /\ SelY < ScrollOffset + Height)

\* Reached: a move down on a viewport of two rows has scrolled the window.
C1_Witness ==
    lastMsg = "down" /\ Height = 2 /\ ScrollOffset = 1 /\ SelY = 2

\* C2: in every frame of a non-empty tree the selection is in a displayed
\* column: its column after the shift is at least the scroll start, which
\* is at least 0.
C2_SelectionColumnShown ==
    (pc = "idle" /\ frame.status = "ok" /\ NonEmptyTree)
        => (frame.scrollX >= 0 /\ nodes[SelectedNode].X >= frame.scrollX)

\* C3: a rebuild (searchDoneMsg) from the unchanged list, with the selected
\* path in the list, leaves SelectedPath() as it was.
C3_RebuildKeepsSelection ==
    [][(Handled({"search"}) /\ \E i \in 1..Len(results) : results[i] = SelectedPath)
          => SelectedPath' = SelectedPath]_vars

\* C4: a move up from the first sibling and a move down from the last one
\* leave the selection where it is; any other move selects the entry before
\* or after the selection in the parent's child list.
C4_MoveClamped ==
    [][(Handled({"up", "down"}) /\ nodes[SelectedNode].Parent # NIL)
          => LET i == IndexOf(Siblings, SelectedNode)
                 d == IF lastMsg' = "up" THEN -1 ELSE 1
             IN  /\ i >= 1
                 /\ SelectedNode' = IF i + d < 1 \/ i + d > Len(Siblings)
                                    THEN SelectedNode
                                    ELSE Siblings[i + d]]_vars

\* Reached: a move down has arrived at (or stayed on) the third sibling.
C4_Witness ==
    /\ lastMsg = "down"
    /\ nodes[SelectedNode].Parent # NIL
    /\ Len(Siblings) = 3
    /\ IndexOf(Siblings, SelectedNode) = 3

\* C5: leave on a child of the display root (the top visible level) changes
\* nothing.
C5_LeaveAtTopIsNoOp ==
    [][(Handled({"left"}) /\ nodes[SelectedNode].Parent = DisplayRoot(nodes, RootId))
          => SelectedNode' = SelectedNode]_vars

\* C6: enter selects the first child of a selected directory that has
\* children, and changes nothing on a node without children.
C6_EnterFirstChild ==
    [][Handled({"right"})
          => SelectedNode' =
                IF nodes[SelectedNode].IsDir /\ Len(nodes[SelectedNode].Children) > 0
                THEN nodes[SelectedNode].Children[1]
                ELSE SelectedNode]_vars

\* Reached: enter has been handled and the selection is the first child of
\* a directory below the root.
C6_Witness ==
    /\ lastMsg = "right"
    /\ nodes[SelectedNode].Parent \notin {NIL, RootId}
    /\ IndexOf(Siblings, SelectedNode) = 1
    /\ Len(Siblings) = 2

\* C7: the selection is always a node of the tree; right after a rebuild it
\* is a node with the path of the first result when there is one, else the
\* first child of the root, else the root.
C7_SelectionDefined ==
    /\ SelectedNode # NIL
    /\ SelectedNode \in TreeNodes(nodes)
    /\ lastMsg = "search" =>
          IF Len(results) > 0 /\ \E n \in TreeNodes(nodes) : nodes[n].Path = results[1]
          THEN nodes[SelectedNode].Path = results[1]
          ELSE IF NonEmptyTree THEN SelectedNode = nodes[RootId].Children[1]
          ELSE SelectedNode = RootId

\* Reached: a rebuild found no node for the first result and selected the
\* first child of the root.
C7_Witness ==
    /\ lastMsg = "search"
    /\ Len(results) > 0
    /\ \A n \in TreeNodes(nodes) : nodes[n].Path # results[1]
    /\ SelectedNode = nodes[RootId].Children[1]

\* C8: right after a rebuild from a non-empty list SelectedPath() is the
\* first path of the list.
C8_SelectedPathIsBestMatch ==
    (lastMsg = "search" /\ Len(results) > 0) => SelectedPath = results[1]

\* C9: the tree built from an empty list is the root alone, the root is
\* selected and SelectedPath() is the empty string; Enter then does nothing.
C9_EmptyTreeEmptyPath ==
    (results = <<>> /\ lastMsg \in {"search", "enter"})
        => /\ ~NonEmptyTree
           /\ SelectedNode = RootId
           /\ SelectedPath = <<>>
           /\ pc # "quit"

\* C10: View does not fail on a viewport with Width <= 0 or Height <= 0.
C10_ViewNeverFails ==
    (Width <= 0 \/ Height <= 0) => pc # "panic"

(***************************************************************************)
(* Properties of the build and the compression                             *)
(***************************************************************************)
\* The tree buildTree returns for the list and the history set of the state.
Built == buildTree(results, historyPaths)

\* The segments from the root down to node n of the built tree B.
RECURSIVE SegmentsOf(_, _)
SegmentsOf(B, n) ==
    IF B[n].Parent = NIL THEN <<>>
    ELSE Append(SegmentsOf(B, B[n].Parent), B[n].Name)

\* The path has the segments of node n as its first segments.
PassesThrough(path, B, n) ==
    LET segs == SegmentsOf(B, n)
        parts == Split(path)
    IN  Len(parts) >= Len(segs) /\ SubSeq(parts, 1, Len(segs)) = segs

\* The index in the list of the first path that passes through node n.
FirstOccurrence(B, n) ==
    CHOOSE k \in 1..Len(results) :
        /\ PassesThrough(results[k], B, n)
        /\ \A j \in 1..(k - 1) : ~PassesThrough(results[j], B, n)

\* The nodes the frame shows below the root.
TopLevelShown ==
    {m \in Rendered(nodes, SelectedNode, getExpandedMap(nodes, SelectedNode), RootId) :
        nodes[m].Parent = RootId}

\* C11: after the build and after the compression the children of every
\* node are in the order in which their segment first occurs in the list,
\* and in the first frame, before any navigation, the rows of the top-level
\* nodes shown increase in that order.
C11_FirstOccurrenceOrder ==
    /\ pc \in {"compress", "select"} =>
          LET B == Built
          IN  \A n \in TreeNodes(nodes) :
                \A i, j \in 1..Len(nodes[n].Children) :
                    i < j => FirstOccurrence(B, nodes[n].Children[i])
                               < FirstOccurrence(B, nodes[n].Children[j])
    /\ (pc = "idle" /\ lastMsg = "none") =>
          LET B == Built
          IN  \A m1, m2 \in TopLevelShown :
                FirstOccurrence(B, m1) < FirstOccurrence(B, m2)
                    => nodes[m1].Y < nodes[m2].Y

\* Reached: the first frame of the list b, a/b/x, a/b/y shows b in row 0 and
\* below it, in row 1, the merged a/b, which has kept x before y.
C11_Witness ==
    /\ pc = "idle"
    /\ lastMsg = "none"
    /\ results = << <<"b">>, <<"a", "/", "b", "/", "x">>, <<"a", "/", "b", "/", "y">> >>
    /\ LET top == nodes[RootId].Children
       IN  /\ Len(top) = 2
           /\ nodes[top[1]].Name = <<"b">>
           /\ nodes[top[1]].Y = 0
           /\ nodes[top[2]].Name = <<"a", "/", "b">>
           /\ nodes[top[2]].Y = 1
           /\ Len(nodes[top[2]].Children) = 2
           /\ nodes[nodes[top[2]].Children[1]].Name = <<"x">>

\* The list without the later occurrences of a path it holds twice.
RECURSIVE Dedup(_)
Dedup(paths) ==
    IF Len(paths) = 0 THEN <<>>
    ELSE LET front == Dedup(SubSeq(paths, 1, Len(paths) - 1))
             last == paths[Len(paths)]
         IN  IF \E i \in 1..Len(front) : front[i] = last THEN front
             ELSE Append(front, last)

\* No node of the tree has two children with the same name.
DistinctChildNames ==
    \A n \in TreeNodes(nodes) :
        \A i, j \in 1..Len(nodes[n].Children) :
            i # j => nodes[nodes[n].Children[i]].Name # nodes[nodes[n].Children[j]].Name

\* C12: the tree built from a list is the tree built from the list without
\* its later duplicates, and after the build and after the compression no
\* node has two children with the same name.
C12_DuplicatesAddNothing ==
    /\ pc = "compress" =>
          (nodes = buildTree(Dedup(results), historyPaths) /\ DistinctChildNames)
    /\ pc = "select" => DistinctChildNames

\* Node n of the built tree B and, below it, the nodes that are the only
\* child of their parent, down to the first node that has no or several
\* children.
RECURSIVE ChainOf(_, _)
ChainOf(B, n) ==
    IF Len(B[n].Children) = 1 THEN <<n>> \o ChainOf(B, B[n].Children[1])
    ELSE <<n>>

\* The names of the first k nodes of a chain, joined with the separator.
ChainLabel(B, chain, k) == JoinSep([i \in 1..k |-> B[chain[i]].Name])

\* The number of childless nodes at or below node n.
LeavesBelow(n) == Cardinality({m \in Subtree(nodes, n) : Len(nodes[m].Children) = 0})

\* Node n has one child, and the threshold rule forbids the merge with it.
MergeBlocked(n) ==
    /\ Len(nodes[n].Children) = 1
    /\ LET c == nodes[n].Children[1]
       IN  /\ Len(nodes[n].Name) + 1 + Len(nodes[c].Name) > 18
           /\ LeavesBelow(c) > 4

\* C13: after compressTree every node below the root stands for a chain of
\* segments that each had one child: its label is the chain joined with "/"
\* and its children are those of the last segment of the chain, in their
\* order; the chain ends before a segment with one child only where the
\* threshold rule blocked the merge.  The two files of
\* src/main/java/com/example hang below one node of that label.
C13_ChainsMerged ==
    pc = "select" =>
      /\ LET B == Built
         IN  \A n \in TreeNodes(nodes) \ {RootId} :
               LET chain == ChainOf(B, n)
               IN  \E k \in 1..Len(chain) :
                     /\ nodes[n].Name = ChainLabel(B, chain, k)
                     /\ nodes[n].Children = B[chain[k]].Children
                     /\ k < Len(chain) => MergeBlocked(n)
      /\ results = CompressionPaths =>
            /\ Len(nodes[RootId].Children) = 1
            /\ LET n == nodes[RootId].Children[1]
               IN  /\ nodes[n].Name = ExampleDir
                   /\ Len(nodes[n].Children) = 2
                   /\ nodes[nodes[n].Children[1]].Name = AppJava
                   /\ nodes[nodes[n].Children[2]].Name = UtilsJava

\* Node n has taken up its only child: it no longer has the name or the
\* children buildTree gave it.
IsMerged(B, n) == nodes[n].Name # B[n].Name \/ nodes[n].Children # B[n].Children

\* C14: after compressTree a node below the root is left with an only child
\* exactly when the joined label would be longer than 18 bytes and the child
\* has more than 4 leaves below it: every node left with an only child meets
\* both conditions, and no merge was made that meets both.
C14_ThresholdDecidesMerge ==
    pc = "select" =>
      LET B == Built
      IN  \A n \in TreeNodes(nodes) \ {RootId} :
            /\ Len(nodes[n].Children) = 1 => MergeBlocked(n)
            /\ IsMerged(B, n) => (Len(nodes[n].Name) <= 18 \/ LeavesBelow(n) <= 4)

(***************************************************************************)
(* Properties of the visibility and of the navigation in the built tree    *)
(***************************************************************************)
\* What getVisibleChildren returns for node n under the selection of the state.
VisibleChildren(n) ==
    getVisibleChildren(nodes, SelectedNode, n, getExpandedMap(nodes, SelectedNode))

\* Node m lies below node n.
IsBelow(m, n) == m # n /\ m \in Subtree(nodes, n)

\* C15: under every selection the visible children of a node are all its
\* children when the node is the selection or its parent, the one child on
\* the way to the selection when the node is a higher ancestor, and none
\* when the node is neither the selection nor above it.
C15_VisibleChildren ==
    pc \in {"render", "idle"} =>
      \A n \in TreeNodes(nodes) :
        IF n = SelectedNode \/ n = nodes[SelectedNode].Parent
        THEN VisibleChildren(n) = nodes[n].Children
        ELSE IF IsBelow(SelectedNode, n)
        THEN /\ Len(VisibleChildren(n)) = 1
             /\ \E i \in 1..Len(nodes[n].Children) :
                   VisibleChildren(n)[1] = nodes[n].Children[i]
             /\ SelectedNode \in Subtree(nodes, VisibleChildren(n)[1])
        ELSE VisibleChildren(n) = <<>>

\* Reached: the selection is two levels below a node under the root that has
\* several children, of which one is visible.
C15_Witness ==
    /\ pc = "idle"
    /\ lastMsg = "right"
    /\ \E n \in TreeNodes(nodes) \ {RootId} :
          /\ IsBelow(SelectedNode, n)
          /\ n # nodes[SelectedNode].Parent
          /\ Len(nodes[n].Children) >= 2
          /\ Len(VisibleChildren(n)) = 1

\* The nodes the layout of the state's selection visits.
Shown == Rendered(nodes, SelectedNode, getExpandedMap(nodes, SelectedNode), RootId)

\* The nodes shown in the column of node n.
ColumnOf(n) == {m \in Shown : nodes[m].X = nodes[n].X}

\* Every child of node p is shown in the column of node n.
ShowsChildrenOf(p, n) ==
    \A i \in 1..Len(nodes[p].Children) : nodes[p].Children[i] \in ColumnOf(n)

\* C16 as stated: in a frame, every column above the column of the
\* selection's parent shows at most one node, the selection's column shows
\* every sibling of the selection, and the parent's column shows every
\* sibling of the parent.
C16_ParentColumnShowsSiblings ==
    (pc = "idle" /\ nodes[SelectedNode].Parent # NIL) =>
      LET p == nodes[SelectedNode].Parent
      IN  /\ \A m \in Shown : nodes[m].X < nodes[p].X => ColumnOf(m) = {m}
          /\ ShowsChildrenOf(p, SelectedNode)
          /\ nodes[p].Parent # NIL => ShowsChildrenOf(nodes[p].Parent, p)

\* C16, amended: in a frame, every column above the selection's column, the
\* parent's column included, shows at most one node, and the selection's
\* column shows every sibling of the selection.
C16_OneNodeAboveSelection ==
    (pc = "idle" /\ nodes[SelectedNode].Parent # NIL) =>
      LET p == nodes[SelectedNode].Parent
      IN  /\ \A m \in Shown : nodes[m].X < nodes[SelectedNode].X => ColumnOf(m) = {m}
          /\ ShowsChildrenOf(p, SelectedNode)

\* Reached: a frame in which the selection has a sibling next to it and the
\* selection's parent has a sibling that is not shown.
C16_Witness ==
    /\ pc = "idle"
    /\ nodes[SelectedNode].Parent # NIL
    /\ LET p == nodes[SelectedNode].Parent
       IN  /\ Len(nodes[p].Children) >= 2
           /\ Cardinality(ColumnOf(SelectedNode)) >= 2
           /\ nodes[p].Parent # NIL
           /\ Len(nodes[nodes[p].Parent].Children) >= 2
           /\ ColumnOf(p) = {p}

\* strings.Contains(s, t)
Contains(s, t) == \E i \in 1..(Len(s) - Len(t) + 1) : SubSeq(s, i, i + Len(t) - 1) = t

\* The label of the selected node.
SelectedName == nodes[SelectedNode].Name

\* A leave with the node of a/b/c/d/e/f.go selected, in the deep tree of
\* cmd/test_tree.
LeaveFromFGo ==
    /\ Handled({"left"})
    /\ results = DeepPaths
    /\ nodes[SelectedNode].Path = DeepPaths[1]

\* C17 as stated: in the deep tree, a leave with the node of f.go selected
\* selects a merged node whose label contains d/e, and not the node b/c.
C17_LeaveReachesDE ==
    [][LeaveFromFGo =>
          /\ Contains(SelectedName', <<"d", "/", "e">>)
          /\ SelectedNode' # SelectedNode
          /\ SelectedName' # <<"b", "/", "c">>]_vars

\* C17, amended: in the deep tree the node of f.go is itself the merged node
\* d/e/f.go, and a leave with it selected selects its parent, the node b/c.
C17_LeaveReachesBC ==
    [][LeaveFromFGo =>
          /\ SelectedName = <<"d", "/", "e", "/", "f", ".", "g", "o">>
          /\ SelectedName' = <<"b", "/", "c">>
          /\ SelectedNode' = nodes[SelectedNode].Parent]_vars

\* Reached: in the deep tree a leave has selected b/c, and d/e/f.go is the
\* first of its children.
C17_Witness ==
    /\ results = DeepPaths
    /\ lastMsg = "left"
    /\ SelectedName = <<"b", "/", "c">>
    /\ nodes[nodes[SelectedNode].Children[1]].Name
         = <<"d", "/", "e", "/", "f", ".", "g", "o">>

(***************************************************************************)
(* Properties of the flags of the nodes                                    *)
(***************************************************************************)
\* The nodes of the built tree B that node n stands for after compression:
\* n and the only children below it, down to the one whose path n now has.
MergedInto(B, n) ==
    LET chain == ChainOf(B, n)
        last == CHOOSE k \in 1..Len(chain) :
                    /\ B[chain[k]].Path = nodes[n].Path
                    /\ \A j \in 1..(k - 1) : B[chain[j]].Path # nodes[n].Path
    IN  {chain[i] : i \in 1..last}

\* C18: after compressTree the historical flag of a node is the OR of the
\* flags buildTree gave to the segments merged into it, and a node is
\* flagged when the path of one of these segments is in the history set.
C18_MergeKeepsHistory ==
    pc = "select" =>
      LET B == Built
      IN  \A n \in TreeNodes(nodes) \ {RootId} :
            /\ nodes[n].IsHistory = (\E m \in MergedInto(B, n) : B[m].IsHistory)
            /\ (\E m \in MergedInto(B, n) : B[m].Path \in historyPaths)
                  => nodes[n].IsHistory

\* C19 as stated: after build and compression a node is flagged only if its
\* path, or the path of a segment merged into it, is in the history set.
C19_FlaggedOnlyIfOwnPath ==
    pc = "select" =>
      LET B == Built
      IN  \A n \in TreeNodes(nodes) \ {RootId} :
            nodes[n].IsHistory =>
                \/ nodes[n].Path \in historyPaths
                \/ \E m \in MergedInto(B, n) : B[m].Path \in historyPaths

\* C19, amended: after build and compression a node is flagged only if its
\* path, or the path of a segment merged into it, is in the history set, or
\* a path of the list that is in the history set passes through it.
C19_FlaggedOnlyIfOnHistoryPath ==
    pc = "select" =>
      LET B == Built
      IN  \A n \in TreeNodes(nodes) \ {RootId} :
            nodes[n].IsHistory =>
                \/ nodes[n].Path \in historyPaths
                \/ \E m \in MergedInto(B, n) : B[m].Path \in historyPaths
                \/ \E k \in 1..Len(results) :
                      /\ results[k] \in historyPaths
                      /\ PassesThrough(results[k], B, n)

\* Reached: a compressed tree with a flagged directory that is not in the
\* history set, nor is a segment merged into it: a historical path of the
\* list passes through it.
C19_Witness ==
    /\ pc = "select"
    /\ \E n \in TreeNodes(nodes) \ {RootId} :
          /\ nodes[n].IsHistory
          /\ nodes[n].Path \notin historyPaths
          /\ \A m \in MergedInto(Built, n) : Built[m].Path \notin historyPaths
          /\ \E k \in 1..Len(results) :
                /\ results[k] \in historyPaths
                /\ PassesThrough(results[k], Built, n)

\* C20: after buildTree a node below the root is marked as a directory
\* exactly when it has children: a node that is only the final segment of
\* paths of the list is not marked.
C20_FilesAreNotDirectories ==
    pc = "compress" =>
      \A n \in TreeNodes(nodes) \ {RootId} :
        nodes[n].IsDir = (Len(nodes[n].Children) > 0)

(***************************************************************************)
(* Properties of the canvas                                                *)
(***************************************************************************)
\* The cells of the frame's grid.
Grid == (0..(Width - 1)) \X (0..(Height - 1))

\* The cell lies on the row of a shown node, from the node's screen position
\* on (its label), or in the two connector cells right of a shown node's
\* column between the rows of its first and last shown child.
Covered(c) ==
    LET expanded == getExpandedMap(nodes, SelectedNode) IN
    \E n \in Rendered(nodes, SelectedNode, expanded, RootId) :
        \/ /\ nodes[n].Y - ScrollOffset = c[2]
           /\ nodes[n].X >= frame.scrollX
           /\ c[1] >= 0
        \/ LET cs == getVisibleChildren(nodes, SelectedNode, n, expanded)
           IN  /\ Len(cs) > 0
               /\ nodes[n].X >= frame.scrollX
               /\ c[2] + ScrollOffset >= nodes[cs[1]].Y
               /\ c[2] + ScrollOffset <= nodes[cs[Len(cs)]].Y

\* C21: for Width >= 1 and Height >= 1 every frame View returns has Height
\* lines of Width cells, every cell written lies in the grid, and every
\* cell written is covered by a shown node's label or connector (the others
\* keep the blank they were initialised to).
C21_FixedGrid ==
    (Width >= 1 /\ Height >= 1)
        => /\ pc # "panic"
           /\ (pc = "idle" /\ frame # NoFrame)
                 => /\ frame.status = "ok"
                    /\ frame.rows = Height
                    /\ frame.cols = Width
                    /\ frame.cells \subseteq Grid
                    /\ \A c \in frame.cells : Covered(c)

\* A frame with cells written up to the last column of the grid and cells
\* left blank, while a shown node lies on a row outside the viewport.
C21_Witness ==
    /\ pc = "idle"
    /\ frame # NoFrame
    /\ frame.status = "ok"
    /\ \E c \in frame.cells : c[1] = Width - 1
    /\ Grid \ frame.cells # {}
    /\ \E n \in Rendered(nodes, SelectedNode, getExpandedMap(nodes, SelectedNode), RootId) :
          nodes[n].Y < ScrollOffset \/ nodes[n].Y >= ScrollOffset + Height

(***************************************************************************)
(* Properties of the default action                                        *)
(***************************************************************************)
\* The action before keys[i] of the log.
Before(i) == IF i = 1 THEN log.base ELSE log.after[i - 1]

\* The cyclic order terminal, explorer, editor, copy.
Following(a) ==
    CASE a = "terminal" -> "explorer"
      [] a = "explorer" -> "editor"
      [] a = "editor" -> "copy"
      [] a = "copy" -> "terminal"

C23_OneItemPerPath ==
    \A h \in GetHistory(db) :
        /\ Len(h) = Cardinality({p \in VisitPaths : log.visits[p] > 0})
        /\ \A i \in 1..Len(h) :
              /\ h[i].path \in VisitPaths
              /\ h[i].frequency = log.visits[h[i].path]
              /\ \A j \in 1..Len(h) : h[j].path = h[i].path => j = i

\* One path visited twice and another once, the last two visits within the
\* same second.
C23_Witness ==
    /\ \E p, q \in VisitPaths : log.visits[p] = 2 /\ log.visits[q] = 1
    /\ Cardinality(GetHistory(db)) = 2

\* The paths of a list.
PathSet(ps) == {ps[i] : i \in 1..Len(ps)}

\* C24: the tags are a set of (tag, path) pairs: GetPathsForTag(tag) returns
\* the paths added to the tag and not removed since, each once, in ascending
\* order; a call that adds a pair the tag holds leaves every row as it was,
\* and a call that removes a pair leaves every other pair in place.
C24_TagsAreASet ==
    [][ /\ \A t \in TagNames :
             LET ps == GetPathsForTag(db', t)
             IN  /\ PathSet(ps) = {pr[2] : pr \in {q \in log'.pairs : q[1] = t}}
                 /\ \A i \in 1..(Len(ps) - 1) : StrLess(ps[i], ps[i + 1])
        /\ (lastMsg' = "AddPathToTag" /\ log'.last.held) => db'.tags = db.tags
        /\ lastMsg' = "RemovePathFromTag"
              => \A t \in TagNames :
                    PathSet(GetPathsForTag(db', t))
                        = PathSet(GetPathsForTag(db, t))
                            \ (IF t = log'.last.pair[1] THEN {log'.last.pair[2]} ELSE {})
      ]_vars

\* A tag with its three paths, added in another order than that of their
\* bytes, the last call having added a pair the tag held, after a pair was
\* removed and added again.
C24_Witness ==
    /\ Len(GetPathsForTag(db, <<"p">>)) = 3
    /\ db.tags[1].path # GetPathsForTag(db, <<"p">>)[1]
    /\ log.last.op = "add"
    /\ log.last.held
    /\ \E i \in 1..Len(db.tags) : db.tags[i].name = <<"q">> /\ i < Len(db.tags)

(***************************************************************************)
(* Properties of the search                                                *)
(***************************************************************************)
\* The bytes of s occur in t in the same order.
RECURSIVE IsSubsequence(_, _)
IsSubsequence(s, t) ==
    IF Len(s) = 0 THEN TRUE
    ELSE IF Len(t) = 0 THEN FALSE
    ELSE IF s[1] = t[1] THEN IsSubsequence(Tail(s), Tail(t))
    ELSE IsSubsequence(s, Tail(t))

\* The number of entries of the list ps equal to p.
Count(ps, p) == Cardinality({i \in 1..Len(ps) : ps[i] = p})

\* C25: for a non-empty query FuzzyHierarchical returns exactly the input
\* paths of which the query without its spaces is a subsequence: every such
\* entry of the input, and nothing else.
C25_ExactlySubsequences ==
    (lastMsg = "FuzzyHierarchical" /\ log.query # <<>>)
        => \A p \in SearchPaths :
              Count(results, p) =
                 IF IsSubsequence(SelectSeq(log.query, LAMBDA c : c # " "), p)
                 THEN Count(log.paths, p) ELSE 0

(***************************************************************************)
(* Properties of the host's messages                                       *)
(***************************************************************************)
\* C26: in every state in which a frame has been rendered, the one right
\* after a WindowSizeMsg has changed the tree's Height included, the row of
\* the selection lies in [ScrollOffset, ScrollOffset + Height).
C26_SelectionRowInFrame ==
    (pc = "idle" /\ frame.status = "ok")
        => (ScrollOffset <= SelY /\ SelY < ScrollOffset + Height)

\* No search command runs.
NoSearchRuns == \A i \in 1..Len(inflight) : inflight[i].type # "search"

\* C27: once every search that was issued has delivered its searchDoneMsg,
\* the tree holds the results of the search issued last, whatever the
\* order in which the results arrived.
C27_LastSearchWins ==
    (log.searched /\ NoSearchRuns) => results = log.lastSearch

\* C28: every filesLoadedMsg is handled by the load that produced it: the
\* list of a directory walk is never stored as the history list nor marked
\* as history whole, and the list of the initial load or of a tag load is
\* never stored as the current-directory list.
C28_LoadsKeepTheirKind ==
    /\ log.historyFrom \in {"none", "initial"}
    /\ log.markedFrom \in {"none", "initial", "tag"}
    /\ log.currentDirFrom \in {"none", "walk"}

(***************************************************************************)
(* Properties of the navigation as a whole                                 *)
(***************************************************************************)
\* The selections that sequences of navigation keys lead to from the
\* selections S on the tree T.
RECURSIVE ReachableFrom(_, _)
ReachableFrom(T, S) ==
    LET S1 == S \cup {KeySelection(T, n, k) : n \in S, k \in NavKeys}
    IN  IF S1 = S THEN S ELSE ReachableFrom(T, S1)

\* C29: for every path p of the input list some sequence of navigation keys
\* leads from the initial selection to a selection with SelectedPath() = p,
\* for a path that is a directory above another path of the list too.
C29_EveryPathCanBePicked ==
    lastMsg = "none"
        => \A k \in 1..Len(results) :
              \E n \in ReachableFrom(nodes, {SelectedNode}) :
                  SelectedPathOf(nodes, n) = results[k]

(***************************************************************************)
(* Properties of the layout                                                *)
(***************************************************************************)
\* A layout pass has run on the tree as it is: Update has handled a key
\* for a selection, or View has drawn a frame.
LaidOut ==
    \/ lastMsg \in NavKeys /\ SelectedNode # NIL /\ pc = "render"
    \/ pc = "idle" /\ frame.status = "ok"

\* The nodes the layout pass visits.
Visited == Rendered(nodes, SelectedNode, getExpandedMap(nodes, SelectedNode), RootId)

\* C30: after a layout pass no two visible nodes have the same column and
\* row; the visible nodes of a column are on the rows 0..k-1, in the order
\* of the traversal; and a selection that has a parent is on the row of its
\* index in the parent's child list.
C30_RowsOfAColumn ==
    LaidOut =>
      /\ \A n1, n2 \in Visited :
            (nodes[n1].X = nodes[n2].X /\ nodes[n1].Y = nodes[n2].Y) => n1 = n2
      /\ \A n \in Visited :
            LET column == {n2 \in Visited : nodes[n2].X = nodes[n].X}
            IN  {nodes[n2].Y : n2 \in column} = 0..(Cardinality(column) - 1)
      /\ \A n \in Visited :
            LET cs == getVisibleChildren(nodes, SelectedNode, n,
                                         getExpandedMap(nodes, SelectedNode))
            IN  \A i, j \in 1..Len(cs) : i < j => nodes[cs[i]].Y < nodes[cs[j]].Y
      /\ (SelectedNode # NIL /\ nodes[SelectedNode].Parent # NIL)
            => SelY = IndexOf(Siblings, SelectedNode) - 1

\* Two columns of two nodes each after a move down: the selection is the
\* second child of its parent, and two of its own children are in the
\* column to its right.
C30_Witness ==
    /\ LaidOut
    /\ lastMsg = "down"
    /\ SelY = 1
    /\ \E n1, n2 \in Visited :
          /\ n1 # n2
          /\ nodes[n1].X = nodes[n2].X
          /\ nodes[n1].X = nodes[SelectedNode].X + 1


(***************************************************************************)
(* Column widths and the horizontal scroll of View                         *)
(***************************************************************************)
\* m.ColWidths as the layout pass of the last View left them: the pass
\* reads the names, the children and the selection only, which View and
\* the state after it share.
ViewColWidths ==
    layoutRoot(nodes, SelectedNode, getExpandedMap(nodes, SelectedNode)).ColWidths

\* The visible nodes that the frame has in the displayed column c.
ColumnNodes(c) ==
    {n \in Rendered(nodes, SelectedNode, getExpandedMap(nodes, SelectedNode), RootId) :
        nodes[n].X = c}

\* The largest width of a node of S (0 for no node).
WidestOf(S) ==
    IF S = {} THEN 0
    ELSE CHOOSE w \in {NodeWidth(nodes, SelectedNode, n) : n \in S} :
            \A n \in S : NodeWidth(nodes, SelectedNode, n) <= w

\* C31: in every frame, the width renderNode uses for the column of a drawn
\* node (m.ColWidths[n.X]) is the largest, over the visible nodes of that
\* displayed column, of the label length plus 4, clamped to 20..40.
C31_ColumnWidth ==
    (pc = "idle" /\ frame.status = "ok")
        => \A n \in frame.drawn :
              MapGet(ViewColWidths, nodes[n].X) = WidestOf(ColumnNodes(nodes[n].X))

\* The scroll starts from which the columns through column t fit in w cells.
FittingStarts(cw, t, w) == {s \in 0..t : SumWidths(cw, s, t) <= w}

\* C32: the horizontal scroll start of a frame is the smallest column s,
\* 0 <= s <= the selection's column, from which the columns through the
\* selection's column fit in Width cells, or the selection's column when
\* there is none; it is never right of the selection's column.
C32_ScrollStart ==
    (pc = "idle" /\ frame.status = "ok")
        => LET t == frame.targetCol
               fits == FittingStarts(ViewColWidths, t, Width)
           IN  /\ frame.scrollX <= t
               /\ frame.scrollX = IF fits # {}
                                  THEN CHOOSE s \in fits : \A r \in fits : s <= r
                                  ELSE t

\* C33: a navigation key handled with Height >= 1 leaves ScrollOffset as it
\* was when the new row of the selection is in [ScrollOffset, ScrollOffset +
\* Height); it sets it to that row when the row is above the window and to
\* row - Height + 1 when it is below; ScrollOffset is never negative.
C33_MinimalScroll ==
    [][(Handled(NavKeys) /\ Height >= 1)
          => LET y == nodes'[SelectedNode'].Y
             IN  /\ ScrollOffset' >= 0
                 /\ (ScrollOffset <= y /\ y < ScrollOffset + Height)
                       => ScrollOffset' = ScrollOffset
                 /\ y < ScrollOffset => ScrollOffset' = y
                 /\ y >= ScrollOffset + Height => ScrollOffset' = y - Height + 1]_vars

\* Reached: on a viewport of one row, a move up has taken the window from
\* the third row to the second.
C33_Witness ==
    lastMsg = "up" /\ Height = 1 /\ ScrollOffset = 1 /\ SelY = 1

(***************************************************************************)
(* The shape of the tree after buildTree and compressTree                  *)
(***************************************************************************)
\* The places <<n, i>> of the child lists of the tree that hold node c.
PlacesOf(c) ==
    {pl \in TreeNodes(nodes) \X (1..Len(nodes)) :
        pl[2] <= Len(nodes[pl[1]].Children) /\ nodes[pl[1]].Children[pl[2]] = c}

\* C34: after buildTree and after compressTree the root is the only node of
\* the tree without a parent; every node in the child list of a node n has
\* n as its Parent, the children a merged node has adopted included; every
\* other node is in exactly one place of one child list; and the Parent
\* pointers lead from every node to the root.
C34_ParentPointers ==
    pc # "build"
        => /\ nodes[RootId].Parent = NIL
           /\ \A n \in TreeNodes(nodes) :
                 /\ n # RootId => nodes[n].Parent \in TreeNodes(nodes)
                 /\ n # RootId => Cardinality(PlacesOf(n)) = 1
                 /\ \A i \in 1..Len(nodes[n].Children) :
                       nodes[nodes[n].Children[i]].Parent = n
                 /\ RootId \in Ancestors(nodes, n)

\* Reached: compressTree has merged a directory with its only child, a
\* directory of two entries, and the merged node has adopted the two.
C34_Witness ==
    /\ pc = "select"
    /\ \E n \in TreeNodes(nodes) :
          /\ ContainsSep(nodes[n].Name)
          /\ Len(nodes[n].Children) = 2
          /\ \A i \in 1..2 : nodes[nodes[n].Children[i]].Parent = n

\* The deepest segment of the built tree B that compressTree has merged into
\* node n: down from n while the only child is no longer a node of the tree.
RECURSIVE DeepestMerged(_, _)
DeepestMerged(B, n) ==
    IF Len(B[n].Children) = 1 /\ B[n].Children[1] \notin TreeNodes(nodes)
    THEN DeepestMerged(B, B[n].Children[1])
    ELSE n

\* C35: after compressTree the Path of every node below the root is the
\* path buildTree gave to the deepest segment merged into the node, and it
\* is the labels of the node's ancestors below the root and its own label,
\* joined with the separator.
C35_PathIsJoinOfLabels ==
    pc \notin {"build", "compress"}
        => \A n \in TreeNodes(nodes) \ {RootId} :
              /\ nodes[n].Path = Built[DeepestMerged(Built, n)].Path
              /\ nodes[n].Path = JoinSep(SegmentsOf(nodes, n))

\* C36: compressTree does not merge the root with a child: after it the
\* root has its label ROOT and its path, no parent, and as children the
\* nodes buildTree put below it, in their order, each carrying a label that
\* starts with its own segment; so too when the root has one child only.
C36_RootNotMerged ==
    pc \notin {"build", "compress"}
        => /\ nodes[RootId].Name = STR_ROOT
           /\ nodes[RootId].Path = STR_DOT
           /\ nodes[RootId].Parent = NIL
           /\ nodes[RootId].Children = Built[RootId].Children
           /\ \A i \in 1..Len(nodes[RootId].Children) :
                 LET c == nodes[RootId].Children[i]
                 IN  /\ nodes[c].Parent = RootId
                     /\ HasPrefix(nodes[c].Name, Built[c].Name)

\* Reached: compressTree has run on a root whose only child is a directory
\* that has kept two entries.
C36_Witness ==
    /\ pc = "select"
    /\ Len(nodes[RootId].Children) = 1
    /\ Len(nodes[nodes[RootId].Children[1]].Children) = 2

\* A node without its layout coordinates.
Structure(nd) ==
    [Name |-> nd.Name, Path |-> nd.Path, IsDir |-> nd.IsDir,
     IsHistory |-> nd.IsHistory, Children |-> nd.Children, Parent |-> nd.Parent]

\* C37: a navigation key leaves the tree as it is: the nodes are the same
\* and each keeps its label, path, directory and historical flags, child
\* list and parent; the viewport size is kept too.  The selection, the
\* scroll offset, the coordinates and the column widths may change.
C37_NavigationKeepsTree ==
    [][Handled(NavKeys)
          => /\ DOMAIN nodes' = DOMAIN nodes
             /\ \A n \in DOMAIN nodes : Structure(nodes'[n]) = Structure(nodes[n])
             /\ Width' = Width
             /\ Height' = Height]_vars

\* Reached: leave has moved the selection onto a directory of two entries
\* and the layout pass of Update has set the widths of three columns.
C37_Witness ==
    /\ lastMsg = "left"
    /\ pc = "render"
    /\ Len(nodes[SelectedNode].Children) = 2
    /\ nodes[nodes[SelectedNode].Children[1]].X = 2
    /\ DOMAIN ColWidths = 0..2

C39_TagSelectedValid ==
    (model.mode = "tags" /\ Len(model.tagList) > 0)
        => /\ 0 <= model.tagSelected
           /\ model.tagSelected < Len(model.tagList)
           /\ \E i \in 1..Len(tagsView(model)) : tagsView(model)[i].cursor

(***************************************************************************)
(* Properties of combineFiles                                              *)
(***************************************************************************)
\* The elements of a list.
Elements(s) == {s[i] : i \in 1..Len(s)}

\* The place of the first occurrence of p in the list s.
FirstPlace(s, p) == CHOOSE i \in 1..Len(s) : s[i] = p /\ \A j \in 1..(i - 1) : s[j] # p

\* C40: the list combineFiles returns holds every path of the two lists
\* once and nothing else: first the paths of the history list, in the order
\* of their first occurrence in it, then the paths of the current-directory
\* list that the history list does not hold, in the order of their first
\* occurrence.
C40_CombineOnceInOrder ==
    lastMsg = "combine"
        => LET h == model.historyFiles
               c == model.currentDirFiles
               r == model.allFiles
               k == Cardinality(Elements(h))
           IN  /\ Elements(r) = Elements(h) \cup Elements(c)
               /\ \A i, j \in 1..Len(r) : i # j => r[i] # r[j]
               /\ \A i \in 1..Len(r) : i <= k <=> r[i] \in Elements(h)
               /\ \A i, j \in 1..Len(r) :
                     (i < j /\ j <= k) => FirstPlace(h, r[i]) < FirstPlace(h, r[j])
               /\ \A i, j \in 1..Len(r) :
                     (k < i /\ i < j) => FirstPlace(c, r[i]) < FirstPlace(c, r[j])

\* Reached: a history list that holds one path twice has been combined with
\* a current-directory list that holds this path and a new one.
C40_Witness ==
    /\ lastMsg = "combine"
    /\ Len(model.historyFiles) = 2
    /\ model.historyFiles[1] = model.historyFiles[2]
    /\ Len(model.currentDirFiles) = 2
    /\ model.currentDirFiles[1] = model.historyFiles[1]
    /\ model.currentDirFiles[2] # model.historyFiles[1]
    /\ model.allFiles = <<model.historyFiles[1], model.currentDirFiles[2]>>
====
